---- MODULE Spec2Model ----
(***************************************************************************)
(* A model of the SparkFun AS7343 driver (sfDevAS7343) together with the   *)
(* two things it talks to: the register bus (sfTkIBus) and the device's    *)
(* banked register file.                                                   *)
(*                                                                         *)
(* Every public driver operation is one action.  An operation runs its     *)
(* whole sequence of bus transactions against the device; the transaction  *)
(* that fails (if any) is an input of the action.  The transactions of the *)
(* most recent operation are kept in `log`, its name, argument and result  *)
(* in `last`.                                                              *)
(*                                                                         *)
(* Three smaller specifications run callers of the driver: the bring-up    *)
(* sequence of the basic example (SpecScenario), the Arduino I2C class     *)
(* (SpecArdI2C) and the gain example sketch (SpecGainSketch).              *)
(***************************************************************************)
EXTENDS Integers, Sequences, FiniteSets, TLC

VARIABLES
    regs,     \* the device's register file, by physical location
    _data,    \* sfDevAS7343::_data, the 18 channel words
    _theBus,  \* sfDevAS7343::_theBus
    log,      \* bus transactions issued by the most recent operation
    last,     \* the most recent operation: [op, arg, ret, out]
    hasRead,  \* history: some readAllSpectralData has returned true
    focus,    \* the register this run of the caller works on
    pc,       \* the call a sketch makes next
    gainSettingIndex  \* the gain example's global of that name

vars == <<regs, _data, _theBus, log, last, hasRead, focus, pc, gainSettingIndex>>

----------------------------------------------------------------------------
(* Bounds of the exploration.                                              *)

\* Bus transactions are numbered 1.. within an operation; `fail` ranges over
\* 0..MaxFail, 0 meaning that no transaction fails.  No operation issues more
\* than four transactions.
MaxFail == 4

\* The bulk read may report any of these byte counts short of the 36 asked for
\* (0 .. MaxShort), or the full 36.
MaxShort == 2

----------------------------------------------------------------------------
(* Register map (addresses are decimal; the header gives them in hex).     *)

kSfeAS7343RegID      == 90     \* 0x5A
kSfeAS7343RegCfg12   == 102    \* 0x66
kSfeAS7343RegGpio    == 107    \* 0x6B
kSfeAS7343RegEnable  == 128    \* 0x80
kSfeAS7343RegWTime   == 131    \* 0x83
kSfeAS7343RegSpThL   == 132    \* 0x84
kSfeAS7343RegSpThH   == 134    \* 0x86
kSfeAS7343RegStatus2 == 144    \* 0x90
kSfeAS7343RegStatus3 == 145    \* 0x91
kSfeAS7343RegStatus  == 147    \* 0x93
kSfeAS7343RegData0   == 149    \* 0x95
kSfeAS7343RegStatus4 == 188    \* 0xBC
kSfeAS7343RegCfg0    == 191    \* 0xBF
kSfeAS7343RegCfg1    == 198    \* 0xC6
kSfeAS7343RegLed     == 205    \* 0xCD
kSfeAS7343RegPers    == 207    \* 0xCF
kSfeAS7343RegCfg20   == 214    \* 0xD6
kSfeAS7343RegFdStatus == 227   \* 0xE3
kSfeAS7343RegIntEnab == 249    \* 0xF9
kSfeAS7343RegControl == 250    \* 0xFA

kDefaultAS7343DeviceID == 129  \* 0x81

REG_BANK_0 == 0
REG_BANK_1 == 1

\* Number of bytes readAllSpectralData asks for: 18 channels of 2 bytes.
NumDataBytes == 36
ksfAS7343NumChannels == 18

Byte == 0..255

----------------------------------------------------------------------------
(* Bit fields of the register unions (LSB-first allocation).               *)

Pow2(n) == 2^n

\* A bit-field member of `width` bits whose lowest bit is bit `lo`.
GetField(byte, lo, width) == (byte \div Pow2(lo)) % Pow2(width)

\* Assignment to a bit-field member: the value is truncated to the member's
\* width and the other bits of the byte keep their value.
SetField(byte, lo, width, x) ==
    byte - GetField(byte, lo, width) * Pow2(lo) + (x % Pow2(width)) * Pow2(lo)

----------------------------------------------------------------------------
(* The device: a banked register file.                                     *)

\* The bank a register address lives in: addresses 0x80 and above are in
\* bank 0, addresses below 0x80 in bank 1.
BankOf(reg) == IF reg >= 128 THEN REG_BANK_0 ELSE REG_BANK_1

\* The physical location an address refers to while `bank` is selected.  The
\* bank-control register CFG0 is reachable whichever bank is selected.
Loc(bank, reg) == IF reg = kSfeAS7343RegCfg0 THEN reg ELSE bank * 256 + reg

\* The location of the register the register map names by `reg`.
Home(reg) == Loc(BankOf(reg), reg)

\* `regs` holds the locations whose content a run draws or the driver has
\* written; every other location holds its power-on content.  The values
\* only need to differ between locations.
PowerOnValue(loc) ==
    IF loc = Home(kSfeAS7343RegID) THEN kDefaultAS7343DeviceID
    ELSE (loc * 7 + 3) % 256

Content(r, loc) == IF loc \in DOMAIN r THEN r[loc] ELSE PowerOnValue(loc)

\* The bank selected on the device: bit 4 (reg_bank) of CFG0.
DeviceBank(r) == GetField(Content(r, kSfeAS7343RegCfg0), 4, 1)

\* A read or write of address `reg` reaches the location that address refers
\* to in the bank selected at that moment.
DevRead(r, reg) == Content(r, Loc(DeviceBank(r), reg))

\* The byte `old` with every bit cleared that is set in `mask`.
ClearBits(old, mask) ==
    LET Keep(b) == IF GetField(mask, b, 1) = 1 THEN 0 ELSE GetField(old, b, 1) * Pow2(b)
    IN  Keep(0) + Keep(1) + Keep(2) + Keep(3) + Keep(4) + Keep(5) + Keep(6) + Keep(7)

\* What location `loc` holds after `byte` is written to it.  STATUS is
\* write-1-to-clear: a 1 clears the flag, a 0 leaves it.  Every other
\* location stores the byte.
Stored(r, loc, byte) ==
    IF loc = Home(kSfeAS7343RegStatus) THEN ClearBits(Content(r, loc), byte) ELSE byte

DevWrite(r, reg, byte) ==
    LET loc == Loc(DeviceBank(r), reg)
    IN  [l \in DOMAIN r \cup {loc} |-> IF l = loc THEN Stored(r, loc, byte) ELSE r[l]]

----------------------------------------------------------------------------
(* The bus.  An operation threads a world w = [regs, log, data] through    *)
(* its transactions; f is the number of the transaction that fails.        *)

\* What _theBus can hold: nullptr, the address of a bus object, or, since the
\* constructor does not initialize it, whatever the object's memory held.
NullBus == "nullptr"
TheBus  == "bus"
WildBus == "indeterminate"

\* A call through an indeterminate pointer reaches no device.  It may report
\* success or an error like any other call; a byte it "reads" is whatever
\* the callee left there, and this value stands for it.
WildByte == 165

\* One logged transaction: `val` is the byte read or written (the byte count
\* for a bulk read), `buf` the bytes a bulk read transferred, `bank` the bank
\* selected on the device when the transaction was issued.
Tx(kind, reg, val, buf, ok, bank) ==
    [kind |-> kind, reg |-> reg, val |-> val, buf |-> buf, ok |-> ok, bank |-> bank]

\* sfTkIBus::readRegister(reg, uint8_t &data)
busReadRegister(w, f, reg) ==
    LET ok  == f # Len(w.log) + 1
        val == IF _theBus = WildBus THEN WildByte ELSE DevRead(w.regs, reg)
    IN  [ok  |-> ok,
         val |-> val,
         w   |-> [w EXCEPT !.log = Append(@, Tx("read", reg, val, <<>>, ok, DeviceBank(w.regs)))]]

\* sfTkIBus::writeRegister(reg, uint8_t data)
busWriteRegister(w, f, reg, byte) ==
    LET ok == f # Len(w.log) + 1
    IN  [ok |-> ok,
         w  |-> [w EXCEPT !.log  = Append(@, Tx("write", reg, byte, <<>>, ok, DeviceBank(w.regs))),
                          !.regs = IF ok /\ _theBus # WildBus THEN DevWrite(@, reg, byte)
                                                              ELSE @]]

\* The register file after `bytes` are written to consecutive addresses
\* starting at `reg`.
RECURSIVE DevWriteN(_, _, _)
DevWriteN(r, reg, bytes) ==
    IF bytes = <<>> THEN r
    ELSE DevWriteN(DevWrite(r, reg, Head(bytes)), reg + 1, Tail(bytes))

\* sfTkIBus::writeRegister(reg, const uint8_t *data, size_t length)
busWriteRegisterN(w, f, reg, bytes) ==
    LET ok == f # Len(w.log) + 1
    IN  [ok |-> ok,
         w  |-> [w EXCEPT !.log  = Append(@, Tx("writeN", reg, Len(bytes), bytes, ok, DeviceBank(w.regs))),
                          !.regs = IF ok /\ _theBus # WildBus THEN DevWriteN(@, reg, bytes)
                                                              ELSE @]]

\* sfTkIBus::readRegister(reg, uint8_t *data, size_t numBytes, size_t &readBytes):
\* the bus transfers nRead bytes, from consecutive addresses, to the start of
\* the caller's buffer; `buf` is what it stored there.
busReadRegisterN(w, f, reg, nRead) ==
    LET ok  == f # Len(w.log) + 1
        buf == [i \in 1..nRead |->
                    IF _theBus = WildBus THEN WildByte ELSE DevRead(w.regs, reg + i - 1)]
    IN  [ok    |-> ok,
         nRead |-> nRead,
         buf   |-> buf,
         w     |-> [w EXCEPT !.log = Append(@, Tx("readN", reg, nRead, buf, ok, DeviceBank(w.regs)))]]

----------------------------------------------------------------------------
(* The driver.                                                             *)

\* No byte came out of the operation.
NoOut == -1

World == [regs |-> regs, log |-> <<>>, data |-> _data]

Result(ret, w) == [ret |-> ret, out |-> NoOut, w |-> w]

\* setRegisterBank with the byte read discarded: CFG0 is written as the bank
\* bit alone.
setRegisterBank_bankBitOnly(w, f, regBank) ==
    IF _theBus = NullBus THEN Result(FALSE, w)
    ELSE
    LET rd == busReadRegister(w, f, kSfeAS7343RegCfg0)
    IN  IF ~rd.ok THEN Result(FALSE, rd.w)
        ELSE
        LET cfg0 == IF regBank = REG_BANK_1 THEN SetField(0, 4, 1, 1)
                                            ELSE SetField(0, 4, 1, 0)
            wr   == busWriteRegister(rd.w, f, kSfeAS7343RegCfg0, cfg0)
        IN  Result(wr.ok, wr.w)

\* setRegisterBank that skips the write when the byte read already shows the
\* requested bank.
setRegisterBank_writeIfChanged(w, f, regBank) ==
    IF _theBus = NullBus THEN Result(FALSE, w)
    ELSE
    LET rd == busReadRegister(w, f, kSfeAS7343RegCfg0)
    IN  IF ~rd.ok THEN Result(FALSE, rd.w)
        ELSE IF GetField(rd.val, 4, 1) = regBank THEN Result(TRUE, rd.w)
        ELSE
        LET wr == busWriteRegister(rd.w, f, kSfeAS7343RegCfg0, SetField(rd.val, 4, 1, regBank))
        IN  Result(wr.ok, wr.w)

\* bool sfDevAS7343::setRegisterBank(as7343_reg_bank_t regBank)
setRegisterBank(w, f, regBank) ==
    IF _theBus = NullBus THEN Result(FALSE, w)
    ELSE
    LET rd == busReadRegister(w, f, kSfeAS7343RegCfg0)
    IN  IF ~rd.ok THEN Result(FALSE, rd.w)
        ELSE
        LET cfg0 == IF regBank = REG_BANK_1 THEN SetField(rd.val, 4, 1, 1)
                                            ELSE SetField(rd.val, 4, 1, 0)
            wr   == busWriteRegister(rd.w, f, kSfeAS7343RegCfg0, cfg0)
        IN  Result(wr.ok, wr.w)

\* The read-modify-write body with the read's error code ignored: the write
\* goes ahead with whatever the union held.
ReadModifyWrite_readUnchecked(w, f, regBank, rreg, wreg, lo, width, x) ==
    IF _theBus = NullBus THEN Result(FALSE, w)
    ELSE
    LET bk == setRegisterBank(w, f, regBank)
    IN  IF bk.ret = FALSE THEN Result(FALSE, bk.w)
        ELSE
        LET rd == busReadRegister(bk.w, f, rreg)
            wr == busWriteRegister(rd.w, f, wreg, SetField(rd.val, lo, width, x))
        IN  Result(wr.ok, wr.w)

\* The body the read-modify-write operations repeat: nullptr check, bank
\* selection, read of `rreg` into the register's bit-field union, assignment
\* of x to the field of `width` bits at bit `lo`, write of the union's byte
\* to `wreg`.
ReadModifyWrite(w, f, regBank, rreg, wreg, lo, width, x) ==
    IF _theBus = NullBus THEN Result(FALSE, w)
    ELSE
    LET bk == setRegisterBank(w, f, regBank)
    IN  IF bk.ret = FALSE THEN Result(FALSE, bk.w)
        ELSE
        LET rd == busReadRegister(bk.w, f, rreg)
        IN  IF ~rd.ok THEN Result(FALSE, rd.w)
            ELSE
            LET wr == busWriteRegister(rd.w, f, wreg, SetField(rd.val, lo, width, x))
            IN  Result(wr.ok, wr.w)

\* bool sfDevAS7343::powerOn(void)
powerOn(w, f) ==
    ReadModifyWrite(w, f, REG_BANK_1, kSfeAS7343RegID, kSfeAS7343RegEnable,
                    0, 1, 1)

\* bool sfDevAS7343::powerOff(void)
powerOff(w, f) ==
    ReadModifyWrite(w, f, REG_BANK_1, kSfeAS7343RegID, kSfeAS7343RegEnable,
                    0, 1, 0)

\* spectralMeasurementEnable inverting sp_en instead of setting it.
spectralMeasurementEnable_toggle(w, f) ==
    IF _theBus = NullBus THEN Result(FALSE, w)
    ELSE
    LET bk == setRegisterBank(w, f, REG_BANK_1)
    IN  IF bk.ret = FALSE THEN Result(FALSE, bk.w)
        ELSE
        LET rd == busReadRegister(bk.w, f, kSfeAS7343RegEnable)
        IN  IF ~rd.ok THEN Result(FALSE, rd.w)
            ELSE
            LET wr == busWriteRegister(rd.w, f, kSfeAS7343RegEnable,
                                       SetField(rd.val, 1, 1, 1 - GetField(rd.val, 1, 1)))
            IN  Result(wr.ok, wr.w)

\* bool sfDevAS7343::spectralMeasurementEnable(void)
spectralMeasurementEnable(w, f) ==
    ReadModifyWrite(w, f, REG_BANK_1, kSfeAS7343RegEnable, kSfeAS7343RegEnable,
                    1, 1, 1)

\* bool sfDevAS7343::spectralMeasurementDisable(void)
spectralMeasurementDisable(w, f) ==
    ReadModifyWrite(w, f, REG_BANK_1, kSfeAS7343RegEnable, kSfeAS7343RegEnable,
                    1, 1, 0)

\* bool sfDevAS7343::enableWaitTime(void)
enableWaitTime(w, f) ==
    ReadModifyWrite(w, f, REG_BANK_0, kSfeAS7343RegEnable, kSfeAS7343RegEnable,
                    3, 1, 1)

\* bool sfDevAS7343::disableWaitTime(void)
disableWaitTime(w, f) ==
    ReadModifyWrite(w, f, REG_BANK_0, kSfeAS7343RegEnable, kSfeAS7343RegEnable,
                    3, 1, 0)

\* bool sfDevAS7343::enableFlickerDetection(void)
enableFlickerDetection(w, f) ==
    ReadModifyWrite(w, f, REG_BANK_0, kSfeAS7343RegEnable, kSfeAS7343RegEnable,
                    6, 1, 1)

\* bool sfDevAS7343::disableFlickerDetection(void)
disableFlickerDetection(w, f) ==
    ReadModifyWrite(w, f, REG_BANK_0, kSfeAS7343RegEnable, kSfeAS7343RegEnable,
                    6, 1, 0)

\* uint8_t sfDevAS7343::getDeviceID(void)
getDeviceID(w, f) ==
    IF _theBus = NullBus THEN Result(0, w)
    ELSE
    LET bk == setRegisterBank(w, f, REG_BANK_1)
    IN  IF bk.ret = FALSE THEN Result(0, bk.w)
        ELSE
        LET rd == busReadRegister(bk.w, f, kSfeAS7343RegID)
        IN  IF ~rd.ok THEN Result(0, rd.w) ELSE Result(rd.val, rd.w)

\* readRegister without the dispatch on the address: bank 0 for every
\* register.
readRegister_bank0Always(w, f, reg) ==
    IF _theBus = NullBus THEN Result(FALSE, w)
    ELSE
    LET bk == setRegisterBank(w, f, REG_BANK_0)
    IN  IF bk.ret = FALSE THEN Result(FALSE, bk.w)
        ELSE
        LET rd == busReadRegister(bk.w, f, reg)
        IN  IF ~rd.ok THEN Result(FALSE, rd.w)
            ELSE [ret |-> TRUE, out |-> rd.val, w |-> rd.w]

\* bool sfDevAS7343::readRegister(uint8_t reg, uint8_t &data)
readRegister(w, f, reg) ==
    IF _theBus = NullBus THEN Result(FALSE, w)
    ELSE
    LET bk == IF reg >= 128 THEN setRegisterBank(w, f, REG_BANK_0)
                            ELSE setRegisterBank(w, f, REG_BANK_1)
    IN  IF bk.ret = FALSE THEN Result(FALSE, bk.w)
        ELSE
        LET rd == busReadRegister(bk.w, f, reg)
        IN  IF ~rd.ok THEN Result(FALSE, rd.w)
            ELSE [ret |-> TRUE, out |-> rd.val, w |-> rd.w]

\* setAutoSmux assigning a field that reaches up to bit 7, which overwrites
\* fd_fifo_8b.
setAutoSmux_threeBits(w, f, auto_smux) ==
    ReadModifyWrite(w, f, REG_BANK_0, kSfeAS7343RegCfg20, kSfeAS7343RegCfg20,
                    5, 3, auto_smux)

\* bool sfDevAS7343::setAutoSmux(as7343_auto_smux_channel_t auto_smux)
setAutoSmux(w, f, auto_smux) ==
    ReadModifyWrite(w, f, REG_BANK_0, kSfeAS7343RegCfg20, kSfeAS7343RegCfg20,
                    5, 2, auto_smux)

\* bool sfDevAS7343::ledOn(void)
ledOn(w, f) ==
    ReadModifyWrite(w, f, REG_BANK_0, kSfeAS7343RegLed, kSfeAS7343RegLed,
                    7, 1, 1)

\* bool sfDevAS7343::ledOff(void)
ledOff(w, f) ==
    ReadModifyWrite(w, f, REG_BANK_0, kSfeAS7343RegLed, kSfeAS7343RegLed,
                    7, 1, 0)

\* setLedDrive without the check of its argument's range.
setLedDrive_rangeUnchecked(w, f, drive) ==
    IF _theBus = NullBus THEN Result(FALSE, w)
    ELSE ReadModifyWrite(w, f, REG_BANK_0, kSfeAS7343RegLed, kSfeAS7343RegLed,
                         0, 7, drive)

\* bool sfDevAS7343::setLedDrive(uint8_t drive)
setLedDrive(w, f, drive) ==
    IF _theBus = NullBus THEN Result(FALSE, w)
    ELSE IF drive > 127 THEN Result(FALSE, w)
    ELSE ReadModifyWrite(w, f, REG_BANK_0, kSfeAS7343RegLed, kSfeAS7343RegLed,
                         0, 7, drive)

\* bool sfDevAS7343::enableSpectralInt()
enableSpectralInt(w, f) ==
    ReadModifyWrite(w, f, REG_BANK_0, kSfeAS7343RegIntEnab, kSfeAS7343RegIntEnab,
                    3, 1, 1)

\* bool sfDevAS7343::disableSpectralInt()
disableSpectralInt(w, f) ==
    ReadModifyWrite(w, f, REG_BANK_0, kSfeAS7343RegIntEnab, kSfeAS7343RegIntEnab,
                    3, 1, 0)

\* bool sfDevAS7343::setSpectralThresholdChannel(as7343_spectral_threshold_channel_t spThCh)
setSpectralThresholdChannel(w, f, spThCh) ==
    ReadModifyWrite(w, f, REG_BANK_1, kSfeAS7343RegCfg12, kSfeAS7343RegCfg12,
                    5, 3, spThCh)

AS7343_GPIO_MODE_OUTPUT == 0
AS7343_GPIO_MODE_INPUT  == 1

\* bool sfDevAS7343::setGpioMode(as7343_gpio_mode_t gpioMode)
setGpioMode(w, f, gpioMode) ==
    IF _theBus = NullBus THEN Result(FALSE, w)
    ELSE
    LET bk == setRegisterBank(w, f, REG_BANK_0)
    IN  IF bk.ret = FALSE THEN Result(FALSE, bk.w)
        ELSE
        LET rd == busReadRegister(bk.w, f, kSfeAS7343RegGpio)
        IN  IF ~rd.ok THEN Result(FALSE, rd.w)
            ELSE IF gpioMode \notin {AS7343_GPIO_MODE_INPUT, AS7343_GPIO_MODE_OUTPUT}
                 THEN Result(FALSE, rd.w)
            ELSE
            LET gpioReg == IF gpioMode = AS7343_GPIO_MODE_INPUT
                           THEN SetField(rd.val, 2, 1, 1)
                           ELSE SetField(rd.val, 2, 1, 0)
                wr == busWriteRegister(rd.w, f, kSfeAS7343RegGpio, gpioReg)
            IN  Result(wr.ok, wr.w)

\* bool sfDevAS7343::getGpioInputStatus(void)
getGpioInputStatus(w, f) ==
    IF _theBus = NullBus THEN Result(FALSE, w)
    ELSE
    LET bk == setRegisterBank(w, f, REG_BANK_0)
    IN  IF bk.ret = FALSE THEN Result(FALSE, bk.w)
        ELSE
        LET rd == busReadRegister(bk.w, f, kSfeAS7343RegGpio)
        IN  IF ~rd.ok THEN Result(FALSE, rd.w)
            ELSE Result(GetField(rd.val, 0, 1) = 1, rd.w)

\* bool sfDevAS7343::setGpioOutput(sfe_as7343_gpio_output_t gpioOut)
setGpioOutput(w, f, gpioOut) ==
    ReadModifyWrite(w, f, REG_BANK_0, kSfeAS7343RegGpio, kSfeAS7343RegGpio,
                    1, 1, gpioOut)

\* bool sfDevAS7343::reset(void)
reset(w, f) ==
    ReadModifyWrite(w, f, REG_BANK_0, kSfeAS7343RegControl, kSfeAS7343RegControl,
                    3, 1, 1)

\* setSpectralIntPersistence refusing a value that does not fit the field.
setSpectralIntPersistence_rangeChecked(w, f, apers) ==
    IF _theBus = NullBus THEN Result(FALSE, w)
    ELSE IF apers > 15 THEN Result(FALSE, w)
    ELSE ReadModifyWrite(w, f, REG_BANK_0, kSfeAS7343RegPers, kSfeAS7343RegPers,
                         0, 4, apers)

\* bool sfDevAS7343::setSpectralIntPersistence(uint8_t apers)
setSpectralIntPersistence(w, f, apers) ==
    ReadModifyWrite(w, f, REG_BANK_0, kSfeAS7343RegPers, kSfeAS7343RegPers,
                    0, 4, apers)

\* clearSpectralChannelInterrupt writing a byte with nothing but aint set.
clearSpectralChannelInterrupt_aintAlone(w, f) ==
    IF _theBus = NullBus THEN Result(FALSE, w)
    ELSE
    LET bk == setRegisterBank(w, f, REG_BANK_0)
    IN  IF bk.ret = FALSE THEN Result(FALSE, bk.w)
        ELSE
        LET rd == busReadRegister(bk.w, f, kSfeAS7343RegStatus)
        IN  IF ~rd.ok THEN Result(FALSE, rd.w)
            ELSE
            LET wr == busWriteRegister(rd.w, f, kSfeAS7343RegStatus, SetField(0, 3, 1, 1))
            IN  Result(wr.ok, wr.w)

\* bool sfDevAS7343::clearSpectralChannelInterrupt(void)
clearSpectralChannelInterrupt(w, f) ==
    ReadModifyWrite(w, f, REG_BANK_0, kSfeAS7343RegStatus, kSfeAS7343RegStatus,
                    3, 1, 1)

\* setAgain assigning the level to the whole CFG1 byte.
setAgain_wholeByte(w, f, again) ==
    ReadModifyWrite(w, f, REG_BANK_0, kSfeAS7343RegCfg1, kSfeAS7343RegCfg1,
                    0, 8, again)

\* bool sfDevAS7343::setAgain(as7343_again_t again)
setAgain(w, f, again) ==
    ReadModifyWrite(w, f, REG_BANK_0, kSfeAS7343RegCfg1, kSfeAS7343RegCfg1,
                    0, 5, again)

\* The part the read accessors repeat: nullptr check, bank selection, read of
\* `reg`.  ok is false when any of them fails; val is the byte read.
ReadIfBankSelected(bk, f, reg) ==
    IF bk.ret = FALSE THEN [ok |-> FALSE, val |-> 0, w |-> bk.w]
    ELSE busReadRegister(bk.w, f, reg)

ReadAfterBank(w, f, regBank, reg) ==
    IF _theBus = NullBus THEN [ok |-> FALSE, val |-> 0, w |-> w]
    ELSE ReadIfBankSelected(setRegisterBank(w, f, regBank), f, reg)

\* What a bool accessor makes of the read `got`: false when it failed, bit b
\* of the byte otherwise.
StatusBit(got, b) ==
    IF ~got.ok THEN Result(FALSE, got.w) ELSE Result(GetField(got.val, b, 1) = 1, got.w)

\* What a uint8_t accessor makes of the read `got`: 0 when it failed, the
\* byte otherwise.
StatusByte(got) ==
    IF ~got.ok THEN Result(0, got.w) ELSE Result(got.val, got.w)

\* An accessor that acknowledges what it read by writing it back.
StatusBitAcknowledged(got, f, reg, b) ==
    IF ~got.ok THEN Result(FALSE, got.w)
    ELSE Result(GetField(got.val, b, 1) = 1, busWriteRegister(got.w, f, reg, got.val).w)

getSystemInterruptStatus_acknowledging(w, f) ==
    StatusBitAcknowledged(ReadAfterBank(w, f, REG_BANK_0, kSfeAS7343RegStatus), f,
                          kSfeAS7343RegStatus, 0)

\* bool sfDevAS7343::getSystemInterruptStatus(void): statusReg.sint
getSystemInterruptStatus(w, f) ==
    StatusBit(ReadAfterBank(w, f, REG_BANK_0, kSfeAS7343RegStatus), 0)

\* bool sfDevAS7343::getSpectralChannelInterruptStatus(void): statusReg.aint
getSpectralChannelInterruptStatus(w, f) ==
    StatusBit(ReadAfterBank(w, f, REG_BANK_0, kSfeAS7343RegStatus), 3)

\* bool sfDevAS7343::getSpectralInterruptHighStatus(void): statusReg.int_sp_h
getSpectralInterruptHighStatus(w, f) ==
    StatusBit(ReadAfterBank(w, f, REG_BANK_0, kSfeAS7343RegStatus3), 5)

\* bool sfDevAS7343::getSpectralTriggerErrorStatus(void): statusReg.sp_trig
getSpectralTriggerErrorStatus(w, f) ==
    StatusBit(ReadAfterBank(w, f, REG_BANK_0, kSfeAS7343RegStatus4), 2)

\* bool sfDevAS7343::getSpectralValidStatus(void): statusReg.avalid
getSpectralValidStatus(w, f) ==
    StatusBit(ReadAfterBank(w, f, REG_BANK_0, kSfeAS7343RegStatus2), 6)

\* bool sfDevAS7343::getFdValidStatus(void): fdStatusReg.fd_meas_valid
getFdValidStatus(w, f) ==
    StatusBit(ReadAfterBank(w, f, REG_BANK_0, kSfeAS7343RegFdStatus), 5)

\* bool sfDevAS7343::getFdSaturationStatus(void): fdStatusReg.fd_saturation
getFdSaturationStatus(w, f) ==
    StatusBit(ReadAfterBank(w, f, REG_BANK_0, kSfeAS7343RegFdStatus), 4)

\* The frequency taken from the detection bits alone.
FdFrequencyUnvalidated(got) ==
    IF ~got.ok THEN Result(0, got.w)
    ELSE IF GetField(got.val, 0, 1) = 1 THEN Result(100, got.w)
    ELSE IF GetField(got.val, 1, 1) = 1 THEN Result(120, got.w)
    ELSE Result(0, got.w)

\* getFdFrequency trusting the detection bits without their valid bits.
getFdFrequency_validIgnored(w, f) ==
    FdFrequencyUnvalidated(ReadAfterBank(w, f, REG_BANK_0, kSfeAS7343RegFdStatus))

\* What getFdFrequency makes of the read `got` of FD_STATUS: a detection bit
\* counts when its valid bit is set, 100 Hz first.
FdFrequency(got) ==
    IF ~got.ok THEN Result(0, got.w)
    ELSE IF GetField(got.val, 0, 1) = 1 /\ GetField(got.val, 2, 1) = 1 THEN Result(100, got.w)
    ELSE IF GetField(got.val, 1, 1) = 1 /\ GetField(got.val, 3, 1) = 1 THEN Result(120, got.w)
    ELSE Result(0, got.w)

\* uint8_t sfDevAS7343::getFdFrequency(void)
getFdFrequency(w, f) ==
    FdFrequency(ReadAfterBank(w, f, REG_BANK_0, kSfeAS7343RegFdStatus))

\* getWaitTime selecting bank 1 before it reads the address of WTIME.
getWaitTime_bank1(w, f) ==
    StatusByte(ReadAfterBank(w, f, REG_BANK_1, kSfeAS7343RegWTime))

\* uint8_t sfDevAS7343::getWaitTime()
getWaitTime(w, f) ==
    StatusByte(ReadAfterBank(w, f, REG_BANK_0, kSfeAS7343RegWTime))

\* A uint8_t accessor that hands back the byte whatever the read's error code.
StatusByteUnchecked(got) == Result(got.val, got.w)

\* readIntEnableReg without the check of the read's error code.
readIntEnableReg_errorIgnored(w, f) ==
    StatusByteUnchecked(ReadAfterBank(w, f, REG_BANK_0, kSfeAS7343RegIntEnab))

\* uint8_t sfDevAS7343::readIntEnableReg(void)
readIntEnableReg(w, f) ==
    StatusByte(ReadAfterBank(w, f, REG_BANK_0, kSfeAS7343RegIntEnab))

\* setWaitTime carrying on after a failed bank selection: the write of WTIME
\* is issued whatever setRegisterBank returned.
setWaitTime_bankUnchecked(w, f, waitTime) ==
    IF _theBus = NullBus THEN Result(FALSE, w)
    ELSE
    LET wr == busWriteRegister(setRegisterBank(w, f, REG_BANK_0).w, f,
                               kSfeAS7343RegWTime, waitTime)
    IN  Result(wr.ok, wr.w)

\* bool sfDevAS7343::setWaitTime(uint8_t waitTime)
setWaitTime(w, f, waitTime) ==
    IF _theBus = NullBus THEN Result(FALSE, w)
    ELSE
    LET bk == setRegisterBank(w, f, REG_BANK_0)
    IN  IF bk.ret = FALSE THEN Result(FALSE, bk.w)
        ELSE
        LET wr == busWriteRegister(bk.w, f, kSfeAS7343RegWTime, waitTime)
        IN  Result(wr.ok, wr.w)

\* (uint8_t *)&spTh: the two bytes of a uint16_t, low byte at the lower
\* address.
BytesOf(word) == <<word % 256, word \div 256>>

\* The threshold written as one byte per register starting one address
\* early, so that its high byte lands on the register's own address.
setSpectralIntThreshold_oneEarly(w, f, reg, spTh) ==
    IF _theBus = NullBus THEN Result(FALSE, w)
    ELSE
    LET bk == setRegisterBank(w, f, REG_BANK_0)
    IN  IF bk.ret = FALSE THEN Result(FALSE, bk.w)
        ELSE
        LET wr == busWriteRegisterN(bk.w, f, reg - 1, BytesOf(spTh))
        IN  Result(wr.ok, wr.w)

\* The body of setSpectralIntThresholdHigh and setSpectralIntThresholdLow:
\* nullptr check, bank 0, one write of both bytes starting at `reg`.
setSpectralIntThreshold(w, f, reg, spTh) ==
    IF _theBus = NullBus THEN Result(FALSE, w)
    ELSE
    LET bk == setRegisterBank(w, f, REG_BANK_0)
    IN  IF bk.ret = FALSE THEN Result(FALSE, bk.w)
        ELSE
        LET wr == busWriteRegisterN(bk.w, f, reg, BytesOf(spTh))
        IN  Result(wr.ok, wr.w)

\* bool sfDevAS7343::setSpectralIntThresholdHigh(uint16_t spThH)
setSpectralIntThresholdHigh(w, f, spThH) ==
    setSpectralIntThreshold(w, f, kSfeAS7343RegSpThH, spThH)

\* bool sfDevAS7343::setSpectralIntThresholdLow(uint16_t spThL)
setSpectralIntThresholdLow(w, f, spThL) ==
    setSpectralIntThreshold(w, f, kSfeAS7343RegSpThL, spThL)

\* sfe_as7343_reg_data_t: data_l is the low byte of `word` and the byte at
\* the lower address, data_h the high byte and the next address.
data_l(word) == word % 256
data_h(word) == word \div 256

\* The buffer laid over the words the other way round: the byte at the lower
\* address taken as the high byte.
StoreBytes_highByteFirst(data, buf) ==
    [c \in DOMAIN data |->
        LET hi == IF 2 * c - 1 <= Len(buf) THEN buf[2 * c - 1] ELSE data_h(data[c])
            lo == IF 2 * c <= Len(buf) THEN buf[2 * c] ELSE data_l(data[c])
        IN  lo + 256 * hi]

\* (uint8_t *)_data as the bus's buffer: byte k of the buffer (from 0) is
\* data_l of _data[k / 2] when k is even and data_h when k is odd.  Only the
\* bytes the bus stored change.
StoreBytes(data, buf) ==
    [c \in DOMAIN data |->
        LET lo == IF 2 * c - 1 <= Len(buf) THEN buf[2 * c - 1] ELSE data_l(data[c])
            hi == IF 2 * c <= Len(buf) THEN buf[2 * c] ELSE data_h(data[c])
        IN  lo + 256 * hi]

\* readAllSpectralData without the comparison of nRead with 36.
readAllSpectralData_countUnchecked(w, f, nRead) ==
    IF _theBus = NullBus THEN Result(FALSE, w)
    ELSE
    LET bk == setRegisterBank(w, f, REG_BANK_0)
    IN  IF bk.ret = FALSE THEN Result(FALSE, bk.w)
        ELSE
        LET rd == busReadRegisterN(bk.w, f, kSfeAS7343RegData0, nRead)
            w2 == [rd.w EXCEPT !.data = StoreBytes(@, rd.buf)]
        IN  IF ~rd.ok THEN Result(FALSE, w2)
            ELSE Result(TRUE, w2)

\* bool sfDevAS7343::readAllSpectralData(void)
readAllSpectralData(w, f, nRead) ==
    IF _theBus = NullBus THEN Result(FALSE, w)
    ELSE
    LET bk == setRegisterBank(w, f, REG_BANK_0)
    IN  IF bk.ret = FALSE THEN Result(FALSE, bk.w)
        ELSE
        LET rd == busReadRegisterN(bk.w, f, kSfeAS7343RegData0, nRead)
            w2 == [rd.w EXCEPT !.data = StoreBytes(@, rd.buf)]
        IN  IF ~rd.ok THEN Result(FALSE, w2)
            ELSE IF rd.nRead # 36 THEN Result(FALSE, w2)
            ELSE Result(TRUE, w2)

\* _data[channel].word; channels count from 0, the sequence from 1.
Word(data, channel) == data[channel + 1]

\* getData taking the channel as a count from 1.
getData_countFromOne(w, channel) ==
    IF channel > 17 THEN Result(0, w)
    ELSE IF channel = 0 THEN Result(0, w)
    ELSE Result(Word(w.data, channel - 1), w)

\* uint16_t sfDevAS7343::getData(as7343_channel_t channel)
getData(w, channel) ==
    IF channel > 17 THEN Result(0, w)
    ELSE Result(Word(w.data, channel), w)

AUTOSMUX_18_CHANNELS == 3

CH_BLUE_FZ_450NM  == 0
CH_NIR_855NM      == 3
CH_RED_F7_690NM   == 13
CH_GREEN_F5_550NM == 15

\* uint16_t sfDevAS7343::getRed(void), getGreen, getBlue, getNIR
getRed(w)   == getData(w, CH_RED_F7_690NM)
getGreen(w) == getData(w, CH_GREEN_F5_550NM)
getBlue(w)  == getData(w, CH_BLUE_FZ_450NM)
getNIR(w)   == getData(w, CH_NIR_855NM)

\* uint16_t sfDevAS7343::getChannelData(uint8_t channel)
getChannelData(w, channel) ==
    IF channel > 17 THEN Result(0, w)
    ELSE getData(w, channel)

----------------------------------------------------------------------------
(* bool sfDevAS7343::begin(sfTkIBus *theBus) and setCommunicationBus.      *)

\* The bus pointer after begin(theBus).
beginBus(theBus) == IF theBus # NullBus THEN theBus ELSE _theBus

\* The values begin(theBus) can return.  Control reaches the end of the
\* function without a return statement unless both pointers are null, so
\* the caller then sees either value.
beginRet(theBus) ==
    IF _theBus = NullBus /\ theBus = NullBus THEN {FALSE} ELSE BOOLEAN

----------------------------------------------------------------------------
(* Initial states.                                                         *)

\* Values of CFG0 a run starts from when it does not work on CFG0 itself:
\* 0x34 (reg_bank, wlong and low_power set) and 0xEF (all but reg_bank).
Cfg0Inits == {52, 239}

\* Values the register a run works on starts from: the alternating patterns
\* 0x55 and 0xAA, which between them start every bit at 0 and at 1.
FocusBytes == {85, 170}

\* Values FD_STATUS starts from, a register the driver only reads: every
\* combination of the detected and valid bits (bits 3..0), with the other
\* four bits all clear and all set.
FdStatusInits == (0..15) \cup {n + 240 : n \in 0..15}

\* The 36-byte block 0,1, 0,2, ..., 0,18.
TestBlock == [i \in 0..NumDataBytes - 1 |-> IF i % 2 = 0 THEN 0 ELSE (i + 1) \div 2]

\* Contents of the 36 data registers (0x95..0xB8) a run starts from:
\* 0,1, 0,2, ..., 0,18 and 255, 254, ..., 220.
DataPatterns == {TestBlock, [i \in 0..NumDataBytes - 1 |-> 255 - i]}

\* The registers the driver names, other than CFG0 and the data registers.
NamedRegs ==
    { kSfeAS7343RegID, kSfeAS7343RegCfg12, kSfeAS7343RegGpio, kSfeAS7343RegEnable,
      kSfeAS7343RegWTime, kSfeAS7343RegSpThL, kSfeAS7343RegSpThH,
      kSfeAS7343RegStatus2, kSfeAS7343RegStatus3, kSfeAS7343RegStatus,
      kSfeAS7343RegStatus4, kSfeAS7343RegCfg1, kSfeAS7343RegLed, kSfeAS7343RegPers,
      kSfeAS7343RegCfg20, kSfeAS7343RegFdStatus, kSfeAS7343RegIntEnab,
      kSfeAS7343RegControl }

\* The register file with CFG0 = cfg0, the register at address `foc` = byte
\* and, when the run works on the data registers, these holding `pattern`.
InitRegs(foc, cfg0, byte, pattern) ==
    LET datalocs == IF foc = kSfeAS7343RegData0
                    THEN {Home(kSfeAS7343RegData0 + i) : i \in 0..NumDataBytes - 1}
                    ELSE {}
    IN  [loc \in {kSfeAS7343RegCfg0, Home(foc)} \cup datalocs |->
            IF loc = kSfeAS7343RegCfg0 THEN cfg0
            ELSE IF loc \in datalocs THEN pattern[loc - Home(kSfeAS7343RegData0)]
            ELSE byte]

NoPattern == <<>>

ZeroData == [c \in 1..ksfAS7343NumChannels |-> 0]

\* _data has no initializer and the constructor body is empty: an object with
\* static storage starts zeroed, one with automatic storage holds whatever
\* the stack held.
StackData == [c \in 1..ksfAS7343NumChannels |-> c * 2571]

\* The operation takes no integer argument, or no bus argument.
NoArg == -1

NoBus == "none"

Init ==
    /\ focus \in Byte
    /\ \E cfg0 \in (IF focus = kSfeAS7343RegCfg0 THEN Byte ELSE Cfg0Inits),
          byte \in (IF focus = kSfeAS7343RegFdStatus THEN FdStatusInits
                    ELSE IF focus \in NamedRegs THEN FocusBytes
                    ELSE {PowerOnValue(Home(focus))}),
          pattern \in (IF focus = kSfeAS7343RegData0 THEN DataPatterns ELSE {NoPattern}) :
            regs = InitRegs(focus, cfg0, byte, pattern)
    /\ _data \in (IF focus = kSfeAS7343RegData0 THEN {ZeroData, StackData} ELSE {ZeroData})
    /\ _theBus \in {NullBus, WildBus}
    /\ log = <<>>
    /\ hasRead = FALSE
    /\ last = [op |-> "constructor", arg |-> NoArg, bus |-> NoBus, ret |-> FALSE, val |-> NoOut,
              out |-> NoOut]
    /\ pc = "setup"
    /\ gainSettingIndex = 9

----------------------------------------------------------------------------
(* Actions: one per public operation.                                      *)

\* Without a bus there is no transaction to fail.
Fails == IF _theBus = NullBus THEN {0} ELSE 0..MaxFail

\* The operations that return a number; the others return a bool.
ValueOps ==
    { "getDeviceID", "getData", "getChannelData", "getRed", "getGreen", "getBlue", "getNIR",
      "getWaitTime", "readIntEnableReg", "getFdFrequency" }

\* The operation `op` was called with `arg` and ended as `r`: `ret` holds a
\* bool result, `val` a numeric one, `out` the byte handed back by reference.
Call(op, arg, r) ==
    /\ last' = [op  |-> op, arg |-> arg, bus |-> NoBus,
                ret |-> IF op \in ValueOps THEN FALSE ELSE r.ret,
                val |-> IF op \in ValueOps THEN r.ret ELSE NoOut,
                out |-> r.out]
    /\ regs' = r.w.regs
    /\ log' = r.w.log
    /\ _data' = r.w.data
    /\ hasRead' = (hasRead \/ (op = "readAllSpectralData" /\ r.ret = TRUE))
    /\ UNCHANGED <<_theBus, focus, pc, gainSettingIndex>>

Begin ==
    \E theBus \in {NullBus, TheBus} : \E ret \in beginRet(theBus) :
        /\ _theBus' = beginBus(theBus)
        /\ last' = [op |-> "begin", arg |-> NoArg, bus |-> theBus, ret |-> ret, val |-> NoOut,
                    out |-> NoOut]
        /\ log' = <<>>
        /\ UNCHANGED <<regs, _data, hasRead, focus, pc, gainSettingIndex>>

SetCommunicationBus ==
    \E theBus \in {NullBus, TheBus} :
        /\ _theBus' = theBus
        /\ last' = [op |-> "setCommunicationBus", arg |-> NoArg, bus |-> theBus, ret |-> FALSE,
                    val |-> NoOut, out |-> NoOut]
        /\ log' = <<>>
        /\ UNCHANGED <<regs, _data, hasRead, focus, pc, gainSettingIndex>>

SetRegisterBank ==
    /\ focus = kSfeAS7343RegCfg0
    /\ \E f \in Fails, regBank \in {REG_BANK_0, REG_BANK_1} :
        Call("setRegisterBank", regBank, setRegisterBank(World, f, regBank))

ReadRegister ==
    \E f \in Fails : Call("readRegister", focus, readRegister(World, f, focus))

GetDeviceID ==
    /\ focus = kSfeAS7343RegID
    /\ \E f \in Fails : Call("getDeviceID", NoArg, getDeviceID(World, f))

PowerOn ==
    /\ focus = kSfeAS7343RegEnable
    /\ \E f \in Fails : Call("powerOn", NoArg, powerOn(World, f))

PowerOff ==
    /\ focus = kSfeAS7343RegEnable
    /\ \E f \in Fails : Call("powerOff", NoArg, powerOff(World, f))

SpectralMeasurementEnable ==
    /\ focus = kSfeAS7343RegEnable
    /\ \E f \in Fails :
        Call("spectralMeasurementEnable", NoArg, spectralMeasurementEnable(World, f))

SpectralMeasurementDisable ==
    /\ focus = kSfeAS7343RegEnable
    /\ \E f \in Fails :
        Call("spectralMeasurementDisable", NoArg, spectralMeasurementDisable(World, f))

EnableWaitTime ==
    /\ focus = kSfeAS7343RegEnable
    /\ \E f \in Fails : Call("enableWaitTime", NoArg, enableWaitTime(World, f))

DisableWaitTime ==
    /\ focus = kSfeAS7343RegEnable
    /\ \E f \in Fails : Call("disableWaitTime", NoArg, disableWaitTime(World, f))

EnableFlickerDetection ==
    /\ focus = kSfeAS7343RegEnable
    /\ \E f \in Fails :
        Call("enableFlickerDetection", NoArg, enableFlickerDetection(World, f))

DisableFlickerDetection ==
    /\ focus = kSfeAS7343RegEnable
    /\ \E f \in Fails :
        Call("disableFlickerDetection", NoArg, disableFlickerDetection(World, f))

\* Byte counts the bulk read may report.
NReads == (0..MaxShort) \cup {NumDataBytes - 1, NumDataBytes}

ReadAllSpectralData ==
    /\ focus = kSfeAS7343RegData0
    /\ \E f \in Fails, nRead \in NReads :
        Call("readAllSpectralData", NoArg, readAllSpectralData(World, f, nRead))

GetData ==
    /\ focus = kSfeAS7343RegData0
    /\ \E channel \in {0, 17, 18} : Call("getData", channel, getData(World, channel))

GetChannelData ==
    /\ focus = kSfeAS7343RegData0
    /\ \E channel \in {0, 17, 18, 255} :
        Call("getChannelData", channel, getChannelData(World, channel))

SetAutoSmux ==
    /\ focus = kSfeAS7343RegCfg20
    /\ \E f \in Fails, auto_smux \in {0, 2, 3} :
        Call("setAutoSmux", auto_smux, setAutoSmux(World, f, auto_smux))

LedOn ==
    /\ focus = kSfeAS7343RegLed
    /\ \E f \in Fails : Call("ledOn", NoArg, ledOn(World, f))

LedOff ==
    /\ focus = kSfeAS7343RegLed
    /\ \E f \in Fails : Call("ledOff", NoArg, ledOff(World, f))

\* Drive currents the caller asks for: both ends of the valid range, a value
\* in between, and both ends of the invalid range.
DriveArgs == {0, 42, 127, 128, 255}

SetLedDrive ==
    /\ focus = kSfeAS7343RegLed
    /\ \E f \in Fails, drive \in DriveArgs :
        Call("setLedDrive", drive, setLedDrive(World, f, drive))

EnableSpectralInt ==
    /\ focus = kSfeAS7343RegIntEnab
    /\ \E f \in Fails : Call("enableSpectralInt", NoArg, enableSpectralInt(World, f))

DisableSpectralInt ==
    /\ focus = kSfeAS7343RegIntEnab
    /\ \E f \in Fails : Call("disableSpectralInt", NoArg, disableSpectralInt(World, f))

SetSpectralThresholdChannel ==
    /\ focus = kSfeAS7343RegCfg12
    /\ \E f \in Fails, spThCh \in 0..5 :
        Call("setSpectralThresholdChannel", spThCh,
             setSpectralThresholdChannel(World, f, spThCh))

SetGpioMode ==
    /\ focus = kSfeAS7343RegGpio
    /\ \E f \in Fails, gpioMode \in {AS7343_GPIO_MODE_OUTPUT, AS7343_GPIO_MODE_INPUT, 2} :
        Call("setGpioMode", gpioMode, setGpioMode(World, f, gpioMode))

GetGpioInputStatus ==
    /\ focus = kSfeAS7343RegGpio
    /\ \E f \in Fails : Call("getGpioInputStatus", NoArg, getGpioInputStatus(World, f))

SetGpioOutput ==
    /\ focus = kSfeAS7343RegGpio
    /\ \E f \in Fails, gpioOut \in {0, 1} :
        Call("setGpioOutput", gpioOut, setGpioOutput(World, f, gpioOut))

Reset ==
    /\ focus = kSfeAS7343RegControl
    /\ \E f \in Fails : Call("reset", NoArg, reset(World, f))

\* Persistence values the caller asks for: the ends of the 4-bit range, a
\* value in between, and two values that do not fit the field.
ApersArgs == {0, 5, 15, 16, 255}

SetSpectralIntPersistence ==
    /\ focus = kSfeAS7343RegPers
    /\ \E f \in Fails, apers \in ApersArgs :
        Call("setSpectralIntPersistence", apers, setSpectralIntPersistence(World, f, apers))

ClearSpectralChannelInterrupt ==
    /\ focus = kSfeAS7343RegStatus
    /\ \E f \in Fails :
        Call("clearSpectralChannelInterrupt", NoArg, clearSpectralChannelInterrupt(World, f))

SetAgain ==
    /\ focus = kSfeAS7343RegCfg1
    /\ \E f \in Fails, again \in 0..12 : Call("setAgain", again, setAgain(World, f, again))

GetSystemInterruptStatus ==
    /\ focus = kSfeAS7343RegStatus
    /\ \E f \in Fails :
        Call("getSystemInterruptStatus", NoArg, getSystemInterruptStatus(World, f))

GetSpectralChannelInterruptStatus ==
    /\ focus = kSfeAS7343RegStatus
    /\ \E f \in Fails :
        Call("getSpectralChannelInterruptStatus", NoArg,
             getSpectralChannelInterruptStatus(World, f))

GetSpectralInterruptHighStatus ==
    /\ focus = kSfeAS7343RegStatus3
    /\ \E f \in Fails :
        Call("getSpectralInterruptHighStatus", NoArg, getSpectralInterruptHighStatus(World, f))

GetSpectralTriggerErrorStatus ==
    /\ focus = kSfeAS7343RegStatus4
    /\ \E f \in Fails :
        Call("getSpectralTriggerErrorStatus", NoArg, getSpectralTriggerErrorStatus(World, f))

GetSpectralValidStatus ==
    /\ focus = kSfeAS7343RegStatus2
    /\ \E f \in Fails :
        Call("getSpectralValidStatus", NoArg, getSpectralValidStatus(World, f))

GetFdValidStatus ==
    /\ focus = kSfeAS7343RegFdStatus
    /\ \E f \in Fails : Call("getFdValidStatus", NoArg, getFdValidStatus(World, f))

GetFdSaturationStatus ==
    /\ focus = kSfeAS7343RegFdStatus
    /\ \E f \in Fails : Call("getFdSaturationStatus", NoArg, getFdSaturationStatus(World, f))

GetFdFrequency ==
    /\ focus = kSfeAS7343RegFdStatus
    /\ \E f \in Fails : Call("getFdFrequency", NoArg, getFdFrequency(World, f))

\* Wait times a caller sets.
WaitArgs == {0, 1, 255}

SetWaitTime ==
    /\ focus = kSfeAS7343RegWTime
    /\ \E f \in Fails, waitTime \in WaitArgs :
        Call("setWaitTime", waitTime, setWaitTime(World, f, waitTime))

GetWaitTime ==
    /\ focus = kSfeAS7343RegWTime
    /\ \E f \in Fails : Call("getWaitTime", NoArg, getWaitTime(World, f))

ReadIntEnableReg ==
    /\ focus = kSfeAS7343RegIntEnab
    /\ \E f \in Fails : Call("readIntEnableReg", NoArg, readIntEnableReg(World, f))

\* Thresholds a caller sets: 0, 0x0102 (distinct bytes) and 0xFFFF.
ThresholdArgs == {0, 258, 65535}

\* A run that works on one threshold register can set the other one too.
ThresholdRegs == {kSfeAS7343RegSpThL, kSfeAS7343RegSpThH}

SetSpectralIntThresholdHigh ==
    /\ focus \in ThresholdRegs
    /\ \E f \in Fails, spThH \in ThresholdArgs :
        Call("setSpectralIntThresholdHigh", spThH, setSpectralIntThresholdHigh(World, f, spThH))

SetSpectralIntThresholdLow ==
    /\ focus \in ThresholdRegs
    /\ \E f \in Fails, spThL \in ThresholdArgs :
        Call("setSpectralIntThresholdLow", spThL, setSpectralIntThresholdLow(World, f, spThL))

GetRed ==
    /\ focus = kSfeAS7343RegData0
    /\ Call("getRed", NoArg, getRed(World))

GetGreen ==
    /\ focus = kSfeAS7343RegData0
    /\ Call("getGreen", NoArg, getGreen(World))

GetBlue ==
    /\ focus = kSfeAS7343RegData0
    /\ Call("getBlue", NoArg, getBlue(World))

GetNIR ==
    /\ focus = kSfeAS7343RegData0
    /\ Call("getNIR", NoArg, getNIR(World))

Next ==
    \/ Begin
    \/ SetCommunicationBus
    \/ SetRegisterBank
    \/ ReadRegister
    \/ GetDeviceID
    \/ PowerOn
    \/ PowerOff
    \/ SpectralMeasurementEnable
    \/ SpectralMeasurementDisable
    \/ EnableWaitTime
    \/ DisableWaitTime
    \/ EnableFlickerDetection
    \/ DisableFlickerDetection
    \/ ReadAllSpectralData
    \/ GetData
    \/ GetChannelData
    \/ SetAutoSmux
    \/ LedOn
    \/ LedOff
    \/ SetLedDrive
    \/ EnableSpectralInt
    \/ DisableSpectralInt
    \/ SetSpectralThresholdChannel
    \/ SetGpioMode
    \/ GetGpioInputStatus
    \/ SetGpioOutput
    \/ Reset
    \/ SetSpectralIntPersistence
    \/ ClearSpectralChannelInterrupt
    \/ SetAgain
    \/ GetSystemInterruptStatus
    \/ GetSpectralChannelInterruptStatus
    \/ GetSpectralInterruptHighStatus
    \/ GetSpectralTriggerErrorStatus
    \/ GetSpectralValidStatus
    \/ GetFdValidStatus
    \/ GetFdSaturationStatus
    \/ GetFdFrequency
    \/ SetWaitTime
    \/ GetWaitTime
    \/ ReadIntEnableReg
    \/ SetSpectralIntThresholdHigh
    \/ SetSpectralIntThresholdLow
    \/ GetRed
    \/ GetGreen
    \/ GetBlue
    \/ GetNIR

Spec == Init /\ [][Next]_vars

----------------------------------------------------------------------------
(* The bring-up sequence of an application: attach the bus, power on,      *)
(* enable the measurement, select the 18-channel read-out, read the        *)
(* samples, look at them.  Each step is taken once the step before it has  *)
(* succeeded; any step may fail.                                           *)

InitScenario == Init /\ focus = kSfeAS7343RegData0

ScenarioAttach ==
    /\ last.op = "constructor"
    /\ Begin

ScenarioPowerOn ==
    /\ last.op = "begin" /\ last.ret = TRUE /\ last.bus = TheBus
    /\ \E f \in Fails : Call("powerOn", NoArg, powerOn(World, f))

ScenarioMeasurementEnable ==
    /\ last.op = "powerOn" /\ last.ret = TRUE
    /\ \E f \in Fails :
        Call("spectralMeasurementEnable", NoArg, spectralMeasurementEnable(World, f))

ScenarioSetAutoSmux ==
    /\ last.op = "spectralMeasurementEnable" /\ last.ret = TRUE
    /\ \E f \in Fails :
        Call("setAutoSmux", AUTOSMUX_18_CHANNELS, setAutoSmux(World, f, AUTOSMUX_18_CHANNELS))

ScenarioReadAll ==
    /\ last.op = "setAutoSmux" /\ last.ret = TRUE
    /\ \E f \in Fails, nRead \in NReads :
        Call("readAllSpectralData", NoArg, readAllSpectralData(World, f, nRead))

ScenarioGetData ==
    /\ last.op \in {"readAllSpectralData", "getData"}
    /\ \E channel \in {0, 17, 18} : Call("getData", channel, getData(World, channel))

NextScenario ==
    \/ ScenarioAttach
    \/ ScenarioPowerOn
    \/ ScenarioMeasurementEnable
    \/ ScenarioSetAutoSmux
    \/ ScenarioReadAll
    \/ ScenarioGetData

SpecScenario == InitScenario /\ [][NextScenario]_vars

----------------------------------------------------------------------------
(* The Arduino I2C class SfeAS7343ArdI2C, which owns the bus object and     *)
(* hands it to the driver.                                                 *)

\* sfTkArdI2C::ping(): a transaction that addresses the device and names no
\* register; the device answers or it does not.
busPing(w, ok) ==
    [ok |-> ok,
     w  |-> [w EXCEPT !.log = Append(@, Tx("ping", NoArg, NoArg, <<>>, ok, DeviceBank(w.regs)))]]

\* bool SfeAS7343ArdI2C::isConnected(void): the result of the ping; the
\* comparison of getDeviceID() with kDefaultAS7343DeviceID is commented out.
isConnected(w, pingOk) ==
    Result(pingOk, busPing(w, pingOk).w)

\* bool SfeAS7343ArdI2C::begin(address, wirePort), its result and
\* transactions; initOk is whether _theI2CBus.init returned ksfTkErrOk.
ArdI2C_begin(w, initOk, pingOk) ==
    IF ~initOk THEN Result(FALSE, w) ELSE isConnected(w, pingOk)

\* The ID register of the device on the bus: the AS7343's, or another value.
DeviceIDs == {kDefaultAS7343DeviceID} \cup FocusBytes

InitArdI2C ==
    /\ focus = kSfeAS7343RegID
    /\ \E cfg0 \in Cfg0Inits, id \in DeviceIDs :
            regs = InitRegs(focus, cfg0, id, NoPattern)
    /\ _data = ZeroData
    /\ _theBus \in {NullBus, WildBus}
    /\ log = <<>>
    /\ hasRead = FALSE
    /\ last = [op |-> "constructor", arg |-> NoArg, bus |-> NoBus, ret |-> FALSE, val |-> NoOut,
              out |-> NoOut]
    /\ pc = "setup"
    /\ gainSettingIndex = 9

\* begin: when the bus object initializes it becomes the driver's bus.
ArdI2CBegin ==
    \E initOk \in BOOLEAN, pingOk \in BOOLEAN :
        /\ _theBus' = IF initOk THEN TheBus ELSE _theBus
        /\ last' = [op  |-> "SfeAS7343ArdI2C::begin", arg |-> NoArg, bus |-> NoBus,
                    ret |-> ArdI2C_begin(World, initOk, pingOk).ret,
                    val |-> NoOut, out |-> NoOut]
        /\ log' = ArdI2C_begin(World, initOk, pingOk).w.log
        /\ UNCHANGED <<regs, _data, hasRead, focus, pc, gainSettingIndex>>

ArdI2CIsConnected ==
    /\ focus = kSfeAS7343RegID
    /\ \E pingOk \in BOOLEAN :
        Call("SfeAS7343ArdI2C::isConnected", NoArg, isConnected(World, pingOk))

NextArdI2C ==
    \/ ArdI2CBegin
    \/ ArdI2CIsConnected
    \/ GetDeviceID

SpecArdI2C == InitArdI2C /\ [][NextArdI2C]_vars

----------------------------------------------------------------------------
(* The gain example (Example_03): setup() brings the sensor up and sets    *)
(* the gain, loop() reads the channels and, on a '+' or '-' from the       *)
(* serial port, calls updateGainSetting().  One action per driver call.    *)

AGAIN_512 == 10

\* gainSettings[i]: the array lists the enumerators AGAIN_0_5 .. AGAIN_2048
\* in order, and their values are 0 .. 12.
gainSettings(i) == i

\* The index after updateGainSetting's adjustment for `input`.
AdjustedIndex(input) ==
    IF input = "+" THEN (IF gainSettingIndex + 1 > 12 THEN 12 ELSE gainSettingIndex + 1)
    ELSE IF input = "-" THEN (IF gainSettingIndex - 1 < 0 THEN 0 ELSE gainSettingIndex - 1)
    ELSE gainSettingIndex

\* mySensor is a global: its members start zeroed.  The sensor is in
\* whatever state it was left in.
InitGainSketch ==
    /\ focus = kSfeAS7343RegEnable
    /\ \E cfg0 \in Cfg0Inits, enable \in FocusBytes :
            regs = InitRegs(focus, cfg0, enable, NoPattern)
    /\ _data = ZeroData
    /\ _theBus = NullBus
    /\ log = <<>>
    /\ hasRead = FALSE
    /\ last = [op |-> "constructor", arg |-> NoArg, bus |-> NoBus, ret |-> FALSE, val |-> NoOut,
              out |-> NoOut]
    /\ pc = "begin"
    /\ gainSettingIndex = 9

\* The sketch calls `op`, which ends as r, and goes on to `then` when it
\* returned true (or a number) and to `else` when it returned false.
SketchCall(op, arg, r, then, else) ==
    /\ last' = [op  |-> op, arg |-> arg, bus |-> NoBus,
                ret |-> IF op \in ValueOps THEN FALSE ELSE r.ret,
                val |-> IF op \in ValueOps THEN r.ret ELSE NoOut,
                out |-> r.out]
    /\ regs' = r.w.regs
    /\ log' = r.w.log
    /\ _data' = r.w.data
    /\ hasRead' = (hasRead \/ (op = "readAllSpectralData" /\ r.ret = TRUE))
    /\ pc' = IF op \in ValueOps \/ r.ret THEN then ELSE else
    /\ UNCHANGED <<_theBus, focus>>

\* setup(): each call that returns false halts the sketch.
SetupBegin ==
    /\ pc = "begin"
    /\ \E initOk \in BOOLEAN, pingOk \in BOOLEAN :
        /\ _theBus' = IF initOk THEN TheBus ELSE _theBus
        /\ last' = [op  |-> "SfeAS7343ArdI2C::begin", arg |-> NoArg, bus |-> NoBus,
                    ret |-> ArdI2C_begin(World, initOk, pingOk).ret,
                    val |-> NoOut, out |-> NoOut]
        /\ log' = ArdI2C_begin(World, initOk, pingOk).w.log
        /\ pc' = IF ArdI2C_begin(World, initOk, pingOk).ret THEN "powerOn" ELSE "halt"
    /\ UNCHANGED <<regs, _data, hasRead, focus, gainSettingIndex>>

SetupPowerOn ==
    /\ pc = "powerOn"
    /\ \E f \in Fails : SketchCall("powerOn", NoArg, powerOn(World, f), "setAutoSmux", "halt")
    /\ UNCHANGED gainSettingIndex

SetupSetAutoSmux ==
    /\ pc = "setAutoSmux"
    /\ \E f \in Fails :
        SketchCall("setAutoSmux", AUTOSMUX_18_CHANNELS, setAutoSmux(World, f, AUTOSMUX_18_CHANNELS),
                   "setAgain", "halt")
    /\ UNCHANGED gainSettingIndex

SetupSetAgain ==
    /\ pc = "setAgain"
    /\ \E f \in Fails :
        SketchCall("setAgain", AGAIN_512, setAgain(World, f, AGAIN_512),
                   "spectralMeasurementEnable", "halt")
    /\ UNCHANGED gainSettingIndex

SetupSpectralMeasurementEnable ==
    /\ pc = "spectralMeasurementEnable"
    /\ \E f \in Fails :
        SketchCall("spectralMeasurementEnable", NoArg, spectralMeasurementEnable(World, f),
                   "loop", "halt")
    /\ UNCHANGED gainSettingIndex

\* loop() with a '+' or '-' waiting: updateGainSetting(input) disables the
\* measurement and, when that succeeded, adjusts the index; when it failed
\* updateGainSetting returns and loop() carries on.
UpdateGainDisable ==
    /\ pc = "loop"
    /\ \E input \in {"+", "-"}, f \in Fails :
        /\ SketchCall("spectralMeasurementDisable", NoArg, spectralMeasurementDisable(World, f),
                      "updateGainSetting: setAgain", "readAllSpectralData")
        /\ gainSettingIndex' = IF spectralMeasurementDisable(World, f).ret
                               THEN AdjustedIndex(input) ELSE gainSettingIndex

UpdateGainSetAgain ==
    /\ pc = "updateGainSetting: setAgain"
    /\ \E f \in Fails :
        SketchCall("setAgain", gainSettings(gainSettingIndex),
                   setAgain(World, f, gainSettings(gainSettingIndex)),
                   "updateGainSetting: spectralMeasurementEnable", "readAllSpectralData")
    /\ UNCHANGED gainSettingIndex

UpdateGainEnable ==
    /\ pc = "updateGainSetting: spectralMeasurementEnable"
    /\ \E f \in Fails :
        SketchCall("spectralMeasurementEnable", NoArg, spectralMeasurementEnable(World, f),
                   "readAllSpectralData", "readAllSpectralData")
    /\ UNCHANGED gainSettingIndex

\* The rest of loop(): read the channels (with no input waiting this is where
\* loop() starts), switch the LED off, print channels 0..16.  None of the
\* results decides what comes next.
LoopReadAllSpectralData ==
    /\ pc \in {"loop", "readAllSpectralData"}
    /\ \E f \in Fails :
        SketchCall("readAllSpectralData", NoArg, readAllSpectralData(World, f, NumDataBytes),
                   "ledOff", "ledOff")
    /\ UNCHANGED gainSettingIndex

LoopLedOff ==
    /\ pc = "ledOff"
    /\ \E f \in Fails : SketchCall("ledOff", NoArg, ledOff(World, f), "getChannelData", "getChannelData")
    /\ UNCHANGED gainSettingIndex

LoopGetChannelData ==
    /\ pc = "getChannelData"
    /\ SketchCall("getChannelData", 16, getChannelData(World, 16), "loop", "loop")
    /\ UNCHANGED gainSettingIndex

NextGainSketch ==
    \/ SetupBegin
    \/ SetupPowerOn
    \/ SetupSetAutoSmux
    \/ SetupSetAgain
    \/ SetupSpectralMeasurementEnable
    \/ UpdateGainDisable
    \/ UpdateGainSetAgain
    \/ UpdateGainEnable
    \/ LoopReadAllSpectralData
    \/ LoopLedOff
    \/ LoopGetChannelData

SpecGainSketch == InitGainSketch /\ [][NextGainSketch]_vars

----------------------------------------------------------------------------
(* Properties.                                                             *)

\* The operation most recently run is `op`, and it returned true.
Succeeded(op) == last.op = op /\ last.ret = TRUE

\* The content of register `reg` in the bank the device documents for it.
Register(r, reg) == Content(r, Home(reg))

\* C1: in every public operation (of a driver with a bus attached), every
\* bus transaction on a register other than CFG0 happens while the selected
\* bank is the one the register lives in: bank 0 for addresses 0x80 and above,
\* bank 1 for addresses below 0x80.
\* This includes powerOn, powerOff, spectralMeasurementEnable and
\* spectralMeasurementDisable (ENABLE, 0x80) and setGpioMode,
\* getGpioInputStatus and setGpioOutput (GPIO, 0x6B).
C1_BankMatchesRegister ==
    _theBus = TheBus =>
        \A i \in DOMAIN log :
            log[i].reg # kSfeAS7343RegCfg0 => log[i].bank = BankOf(log[i].reg)

\* C2: after a successful powerOn (powerOff) on an attached bus the PON bit of ENABLE is 1 (0)
\* and every other bit of ENABLE is what it was before the call, whatever
\* ENABLE and the selected bank were.
C2_PowerKeepsOtherEnableBits ==
    [][ (_theBus = TheBus /\ last'.op \in {"powerOn", "powerOff"} /\ last'.ret = TRUE) =>
            /\ GetField(Register(regs', kSfeAS7343RegEnable), 0, 1)
                 = (IF last'.op = "powerOn" THEN 1 ELSE 0)
            /\ \A b \in 1..7 :
                 GetField(Register(regs', kSfeAS7343RegEnable), b, 1)
                   = GetField(Register(regs, kSfeAS7343RegEnable), b, 1)
      ]_vars

\* The ENABLE bit an operation targets and the value it requests.
EnableBitOps ==
    [ spectralMeasurementEnable  |-> <<1, 1>>,
      spectralMeasurementDisable |-> <<1, 0>>,
      enableWaitTime             |-> <<3, 1>>,
      disableWaitTime            |-> <<3, 0>>,
      enableFlickerDetection     |-> <<6, 1>>,
      disableFlickerDetection    |-> <<6, 0>> ]

\* C3: after a successful spectralMeasurementEnable/Disable,
\* enable/disableWaitTime or enable/disableFlickerDetection on an attached
\* bus, ENABLE differs
\* from its prior value at most in the targeted bit (SP_EN bit 1, WEN bit 3,
\* FDEN bit 6), and that bit holds the requested value; in particular
\* spectralMeasurementDisable never clears PON.
C3_EnableBitOpsTouchOneBit ==
    [][ (_theBus = TheBus /\ last'.op \in DOMAIN EnableBitOps /\ last'.ret = TRUE) =>
            LET bit == EnableBitOps[last'.op][1]
                val == EnableBitOps[last'.op][2]
            IN  /\ GetField(Register(regs', kSfeAS7343RegEnable), bit, 1) = val
                /\ \A b \in 0..7 :
                     b # bit =>
                       GetField(Register(regs', kSfeAS7343RegEnable), b, 1)
                         = GetField(Register(regs, kSfeAS7343RegEnable), b, 1)
      ]_vars

\* C4: setRegisterBank(bank) writes to CFG0 the byte it read from CFG0 with
\* only bit 4 (REG_BANK) replaced by the requested bank: every other bit of
\* the byte written equals the bit read, whatever CFG0 held.
C4_SetRegisterBankKeepsOtherBits ==
    (last.op = "setRegisterBank" /\ Len(log) = 2) =>
        /\ log[1].kind = "read" /\ log[1].reg = kSfeAS7343RegCfg0
        /\ log[2].kind = "write" /\ log[2].reg = kSfeAS7343RegCfg0
        /\ GetField(log[2].val, 4, 1) = last.arg
        /\ \A b \in 0..7 :
             b # 4 => GetField(log[2].val, b, 1) = GetField(log[1].val, b, 1)

\* C4's case: bank 1 requested while CFG0 held 0xCF (bank 0, other bits set).
C4_Witness ==
    /\ _theBus = TheBus
    /\ Succeeded("setRegisterBank")
    /\ last.arg = REG_BANK_1
    /\ Len(log) = 2
    /\ log[1].val = 207
    /\ log[2].val = 223

\* C5: readRegister(reg) selects bank 0 when reg >= 0x80 and bank 1 otherwise
\* before its single read of reg; when it returns true, data is the byte the
\* bus returned for reg (the register's content in its own bank); it returns
\* false when the bank selection or the read fails.
C5_ReadRegisterSelectsBank ==
    last.op = "readRegister" =>
        LET reg  == last.arg
            want == IF reg >= 128 THEN 0 ELSE 1
        IN  /\ Len(log) <= 3
            /\ Len(log) >= 2 =>
                 /\ log[2].kind = "write" /\ log[2].reg = kSfeAS7343RegCfg0
                 /\ GetField(log[2].val, 4, 1) = want
            /\ Len(log) = 3 =>
                 /\ log[2].ok
                 /\ log[3].kind = "read" /\ log[3].reg = reg
                 /\ _theBus = TheBus => log[3].bank = want
            /\ last.ret = TRUE =>
                 /\ Len(log) = 3
                 /\ \A i \in 1..3 : log[i].ok
                 /\ last.out = log[3].val
                 /\ _theBus = TheBus => last.out = Register(regs, reg)
            /\ (Len(log) < 3 \/ \E i \in DOMAIN log : ~log[i].ok) => last.ret = FALSE

\* C5's case: a register below 0x80 read successfully while the device had
\* bank 0 selected.
C5_Witness ==
    /\ _theBus = TheBus
    /\ Succeeded("readRegister")
    /\ last.arg < 128
    /\ GetField(log[1].val, 4, 1) = 0
    /\ last.out = Register(regs, last.arg)

\* The register each read-modify-write operation writes.
RmwTarget ==
    [ setRegisterBank               |-> kSfeAS7343RegCfg0,
      powerOn                       |-> kSfeAS7343RegEnable,
      powerOff                      |-> kSfeAS7343RegEnable,
      spectralMeasurementEnable     |-> kSfeAS7343RegEnable,
      spectralMeasurementDisable    |-> kSfeAS7343RegEnable,
      enableWaitTime                |-> kSfeAS7343RegEnable,
      disableWaitTime               |-> kSfeAS7343RegEnable,
      enableFlickerDetection        |-> kSfeAS7343RegEnable,
      disableFlickerDetection       |-> kSfeAS7343RegEnable,
      enableSpectralInt             |-> kSfeAS7343RegIntEnab,
      disableSpectralInt            |-> kSfeAS7343RegIntEnab,
      setAutoSmux                   |-> kSfeAS7343RegCfg20,
      setAgain                      |-> kSfeAS7343RegCfg1,
      ledOn                         |-> kSfeAS7343RegLed,
      ledOff                        |-> kSfeAS7343RegLed,
      setLedDrive                   |-> kSfeAS7343RegLed,
      setSpectralThresholdChannel   |-> kSfeAS7343RegCfg12,
      setSpectralIntPersistence     |-> kSfeAS7343RegPers,
      setGpioMode                   |-> kSfeAS7343RegGpio,
      setGpioOutput                 |-> kSfeAS7343RegGpio,
      reset                         |-> kSfeAS7343RegControl,
      clearSpectralChannelInterrupt |-> kSfeAS7343RegStatus ]

\* Some single-byte read of the operation whose transactions are `l` failed.
ReadFailed(l) == \E i \in DOMAIN l : l[i].kind = "read" /\ ~l[i].ok

\* C6: in every read-modify-write operation, when the bus read of the
\* register fails the operation returns failure and issues no write to its
\* target register, so the target register is unchanged.
C6_FailedReadWritesNothing ==
    [][ (last'.op \in DOMAIN RmwTarget /\ ReadFailed(log')) =>
            LET target == RmwTarget[last'.op]
            IN  /\ last'.ret = FALSE
                /\ \A j \in DOMAIN log' :
                     log'[j].kind = "write" => log'[j].reg # target
                /\ \A bank \in {REG_BANK_0, REG_BANK_1} :
                     Content(regs', Loc(bank, target)) = Content(regs, Loc(bank, target))
      ]_vars

\* C6's case: ledOn selected its bank and then failed to read LED.
C6_Witness ==
    /\ _theBus = TheBus
    /\ last.op = "ledOn"
    /\ Len(log) = 3
    /\ log[2].ok
    /\ log[3].kind = "read" /\ log[3].reg = kSfeAS7343RegLed /\ ~log[3].ok
    /\ last.ret = FALSE

\* The state the driver's operators start from, with `data` as the samples.
WorldWith(data) == [regs |-> regs, log |-> <<>>, data |-> data]

\* C7: after a successful readAllSpectralData that transferred the 36 bytes
\* b[0..35] starting at register 0x95, getData(i) and getChannelData(i) both
\* equal b[2i] + 256 * b[2i+1] for every channel i in 0..17, and
\* getChannelData(i) is 0 for every i in 18..255.
C7_SamplesAreLittleEndianPairs ==
    Succeeded("readAllSpectralData") =>
        LET rd == log[Len(log)]
            b  == [k \in 0..Len(rd.buf) - 1 |-> rd.buf[k + 1]]
        IN  /\ rd.kind = "readN" /\ rd.reg = kSfeAS7343RegData0 /\ rd.val = NumDataBytes
            /\ _theBus = TheBus =>
                 \A k \in DOMAIN b : b[k] = Register(regs, kSfeAS7343RegData0 + k)
            /\ \A i \in 0..17 :
                 /\ getData(World, i).ret = b[2 * i] + 256 * b[2 * i + 1]
                 /\ getChannelData(World, i).ret = b[2 * i] + 256 * b[2 * i + 1]
            /\ \A i \in 18..255 : getChannelData(World, i).ret = 0

\* C7's case: a successful bulk read of data registers whose low and high
\* bytes differ, over samples that held something else.
C7_Witness ==
    /\ _theBus = TheBus
    /\ Succeeded("readAllSpectralData")
    /\ Register(regs, kSfeAS7343RegData0) = 255
    /\ Register(regs, kSfeAS7343RegData0 + 1) = 254
    /\ getData(World, 0).ret = 65279
    /\ getChannelData(World, 17).ret = 56541

\* C8: a readAllSpectralData on an attached bus that returns false (bank
\* selection failed, the bulk read reported an error, or fewer than 36 bytes
\* were transferred) leaves the stored channel samples unchanged: every getData(i) and
\* getChannelData(i) returns what it returned before the call.
C8_FailedReadKeepsSamples ==
    [][ (_theBus = TheBus /\ last'.op = "readAllSpectralData" /\ last'.ret = FALSE) =>
            \A i \in 0..17 :
                /\ getData(WorldWith(_data'), i).ret = getData(World, i).ret
                /\ getChannelData(WorldWith(_data'), i).ret = getChannelData(World, i).ret
      ]_vars

\* C9: readAllSpectralData returns false whenever the number of bytes the
\* bulk read reports differs from 36, even if the bus call itself reported
\* success; it returns true only when bank 0 was selected and exactly 36
\* bytes were read in the one bulk transaction.
C9_ReadAllNeedsAll36Bytes ==
    last.op = "readAllSpectralData" =>
        /\ \A i \in DOMAIN log :
             (log[i].kind = "readN" /\ log[i].val # 36) => last.ret = FALSE
        /\ last.ret = TRUE =>
             /\ Len(log) = 3
             /\ log[2].kind = "write" /\ log[2].reg = kSfeAS7343RegCfg0 /\ log[2].ok
             /\ GetField(log[2].val, 4, 1) = 0
             /\ log[3].kind = "readN" /\ log[3].reg = kSfeAS7343RegData0
             /\ log[3].ok /\ log[3].val = 36
             /\ _theBus = TheBus => log[3].bank = 0
             /\ Cardinality({i \in DOMAIN log : log[i].kind = "readN"}) = 1

\* C9's case: the bus reported success for a bulk read of 35 bytes.
C9_Witness ==
    /\ _theBus = TheBus
    /\ last.op = "readAllSpectralData"
    /\ Len(log) = 3
    /\ log[3].ok
    /\ log[3].val = 35
    /\ last.ret = FALSE

\* C10: on a newly constructed driver, getData(i) returns 0 for every channel
\* i in 0..17, in the initial state and in every state reached without a
\* successful readAllSpectralData.
C10_SamplesZeroUntilFirstRead ==
    ~hasRead => \A i \in 0..17 : getData(World, i).ret = 0

\* C11: on a driver on which no bus was ever set (no begin with a bus, no
\* setCommunicationBus), every public operation returns failure -- false, or 0
\* from the accessors that return a value -- and performs no bus transaction.
C11_NoBusNoTransaction ==
    ( /\ _theBus \in {NullBus, WildBus}
      /\ last.op \notin {"constructor", "setCommunicationBus"} ) =>
        /\ IF last.op \in ValueOps THEN last.val = 0 ELSE last.ret = FALSE
        /\ log = <<>>

\* C12: begin(theBus) returns false exactly when the stored bus and the
\* argument are both null; otherwise it returns true, and when the argument is
\* not null the stored bus becomes the argument.
C12_BeginReturnsTrueUnlessBothNull ==
    [][ last'.op = "begin" =>
            /\ (last'.ret = FALSE) <=> (_theBus = NullBus /\ last'.bus = NullBus)
            /\ last'.bus # NullBus => _theBus' = last'.bus
      ]_vars

\* C13: setLedDrive(d) with d in 128..255 returns false and performs no bus
\* transaction at all; with d in 0..127 a successful call (bus attached) writes
\* the LED register (0xCD, bank 0) with bits 6..0 equal to d and bit 7 as it
\* was before the call.
C13_SetLedDriveRange ==
    /\ (last.op = "setLedDrive" /\ last.arg > 127) => (last.ret = FALSE /\ log = <<>>)
    /\ focus = kSfeAS7343RegLed =>
        \A d \in Byte, f \in Fails :
            LET r == setLedDrive(World, f, d)
            IN  /\ d > 127 => (r.ret = FALSE /\ r.w.log = <<>> /\ r.w.regs = regs)
                /\ (d <= 127 /\ _theBus = TheBus /\ r.ret = TRUE) =>
                    LET wr == r.w.log[Len(r.w.log)]
                    IN  /\ wr.kind = "write" /\ wr.reg = kSfeAS7343RegLed /\ wr.bank = 0
                        /\ GetField(wr.val, 0, 7) = d
                        /\ GetField(wr.val, 7, 1) = GetField(Register(regs, kSfeAS7343RegLed), 7, 1)
                        /\ Register(r.w.regs, kSfeAS7343RegLed) = wr.val

\* C13's case: setLedDrive(127) succeeded on an LED register whose bit 7
\* (led_act) was set.
C13_Witness ==
    /\ _theBus = TheBus
    /\ Succeeded("setLedDrive")
    /\ last.arg = 127
    /\ log[Len(log)].val = 255
    /\ Register(regs, kSfeAS7343RegLed) = 255

\* C14: for every gain level 0..12 and every prior value of CFG1 (0xC6; each
\* of its bits 7..5 is 0 in one run and 1 in another), after
\* a successful setAgain(level) on an attached bus the bits 4..0 of CFG1 equal
\* level and its bits 7..5 are what they were before the call.
C14_SetAgainKeepsHighBits ==
    [][ (last'.op = "setAgain" /\ last'.ret = TRUE /\ _theBus = TheBus) =>
            LET old == Register(regs, kSfeAS7343RegCfg1)
                new == Register(regs', kSfeAS7343RegCfg1)
            IN  /\ GetField(new, 0, 5) = last'.arg
                /\ GetField(new, 5, 3) = GetField(old, 5, 3)
      ]_vars

\* C14's case: setAgain(12) succeeded on a CFG1 that held 0xAA: bits 7..5 are
\* still 101 and bits 4..0 are 01100.
C14_Witness ==
    /\ _theBus = TheBus
    /\ Succeeded("setAgain")
    /\ last.arg = 12
    /\ log[3].val = 170
    /\ Register(regs, kSfeAS7343RegCfg1) = 172

\* C15: getFdFrequency returns 0, 100 or 120 and nothing else; when it has
\* read FD_STATUS (0xE3) on an attached bus, then for every value of the
\* register it returns 100 if bits 0 and 2 are both set, otherwise 120 if bits
\* 1 and 3 are both set, otherwise 0.
C15_FdFrequencyFromStatusBits ==
    last.op = "getFdFrequency" =>
        /\ last.val \in {0, 100, 120}
        /\ (_theBus = TheBus /\ Len(log) = 3 /\ log[3].ok) =>
            LET fd == Register(regs, kSfeAS7343RegFdStatus)
                Bit(b) == GetField(fd, b, 1) = 1
            IN  last.val = IF Bit(0) /\ Bit(2) THEN 100
                           ELSE IF Bit(1) /\ Bit(3) THEN 120
                           ELSE 0

\* C15's case: FD_STATUS = 0x0B, 100 Hz detected but not valid and 120 Hz
\* detected and valid, and getFdFrequency returned 120.
C15_Witness ==
    /\ _theBus = TheBus
    /\ last.op = "getFdFrequency"
    /\ Len(log) = 3 /\ log[3].ok
    /\ log[3].val = 11
    /\ last.val = 120

\* The register files r1 and r2 hold the same content at every location not
\* in `except`.  A location that neither of them lists holds its power-on
\* content in both.
SameRegisters(r1, r2, except) ==
    \A loc \in (DOMAIN r1 \cup DOMAIN r2) \ except : Content(r1, loc) = Content(r2, loc)

\* C16: when spectralMeasurementEnable succeeds twice in a row, the second
\* call writes to ENABLE the byte the first one wrote, and it leaves every
\* device register, CFG0 included, as the first call left it.
C16_SpectralEnableTwice ==
    [][ ( /\ last.op = "spectralMeasurementEnable" /\ last.ret = TRUE
          /\ last'.op = "spectralMeasurementEnable" /\ last'.ret = TRUE ) =>
            /\ log'[Len(log')].kind = "write"
            /\ log'[Len(log')].reg = kSfeAS7343RegEnable
            /\ log'[Len(log')].val = log[Len(log)].val
            /\ log'[Len(log')].bank = log[Len(log)].bank
            /\ SameRegisters(regs, regs', {})
      ]_vars

\* C16's case: a successful spectralMeasurementEnable that found what only an
\* earlier spectralMeasurementEnable leaves behind (0x82 at the location it
\* writes, after powerOff had made it 0x80), with its bank already selected.
C16_Witness ==
    /\ _theBus = TheBus
    /\ Succeeded("spectralMeasurementEnable")
    /\ log[1].val = log[2].val
    /\ log[3].val = 130
    /\ log[4].val = 130

\* The bulk read of the most recent readAllSpectralData handed over all 36
\* bytes of the block 0,1, 0,2, ..., 0,18 and every transaction succeeded.
BusSuppliedTestBlock ==
    /\ _theBus = TheBus
    /\ last.op = "readAllSpectralData"
    /\ Len(log) = 3
    /\ \A i \in DOMAIN log : log[i].ok
    /\ log[3].val = NumDataBytes
    /\ \A k \in DOMAIN TestBlock : log[3].buf[k + 1] = TestBlock[k]

\* C17 as stated: in the bring-up sequence (begin with a bus, powerOn,
\* spectralMeasurementEnable, setAutoSmux(18 channels) all succeeded), when the
\* bus supplies the block 0,1, 0,2, ..., 0,18, readAllSpectralData succeeds and
\* getData(0) is 1 and getData(17) is 18.
C17_ScenarioAsStated ==
    BusSuppliedTestBlock =>
        /\ last.ret = TRUE
        /\ getData(World, 0).ret = 1
        /\ getData(World, 17).ret = 18

\* C17, amended: in the same sequence with the same block, readAllSpectralData
\* succeeds and the samples are the byte pairs read low byte first:
\* getData(0) is 256 (bytes 0, 1) and getData(17) is 4608 (bytes 0, 18); a
\* getData called afterwards returns just that.
C17_ScenarioLowByteFirst ==
    /\ BusSuppliedTestBlock =>
        /\ last.ret = TRUE
        /\ getData(World, 0).ret = 256
        /\ getData(World, 17).ret = 4608
    /\ ( /\ last.op = "getData" /\ last.arg \in {0, 17} /\ hasRead
          /\ \A k \in DOMAIN TestBlock :
                Register(regs, kSfeAS7343RegData0 + k) = TestBlock[k] ) =>
        last.val = 256 * (last.arg + 1)

\* C17's case: the sequence got as far as getData(17) after a successful read
\* of the block, with the 18-channel read-out selected beforehand.
C17_Witness ==
    /\ _theBus = TheBus
    /\ hasRead
    /\ GetField(Register(regs, kSfeAS7343RegCfg20), 5, 2) = AUTOSMUX_18_CHANNELS
    /\ Register(regs, kSfeAS7343RegData0 + 35) = 18
    /\ last.op = "getData" /\ last.arg = 17
    /\ last.val = 4608

\* Bit b of the STATUS register (0x93) is set in the register file r.
StatusFlag(r, b) == GetField(Register(r, kSfeAS7343RegStatus), b, 1) = 1

\* C18: with STATUS (0x93) write-1-to-clear, a successful
\* clearSpectralChannelInterrupt clears AINT only: each of SINT (bit 0), FINT
\* (bit 2) and ASAT (bit 7) that was pending before the call is still pending
\* after it, for every prior STATUS value.
C18_ClearLeavesOtherFlagsPending ==
    [][ ( /\ _theBus = TheBus
          /\ last'.op = "clearSpectralChannelInterrupt" /\ last'.ret = TRUE ) =>
            \A b \in {0, 2, 7} : StatusFlag(regs, b) => StatusFlag(regs', b)
      ]_vars

\* C19: the byte clearSpectralChannelInterrupt writes to STATUS (0x93) is the
\* byte it has just read from STATUS with bit 3 (AINT) set to 1 and the other
\* seven bits as read.
C19_ClearWritesBackWithAintSet ==
    (last.op = "clearSpectralChannelInterrupt" /\ Len(log) = 4) =>
        /\ log[3].kind = "read" /\ log[3].reg = kSfeAS7343RegStatus
        /\ log[4].kind = "write" /\ log[4].reg = kSfeAS7343RegStatus
        /\ _theBus = TheBus => (log[3].bank = 0 /\ log[4].bank = 0)
        /\ GetField(log[4].val, 3, 1) = 1
        /\ \A b \in (0..7) \ {3} : GetField(log[4].val, b, 1) = GetField(log[3].val, b, 1)
        /\ last.ret = log[4].ok

\* C19's case: STATUS read as 0x55 (AINT clear, SINT and FINT set) and 0x5D
\* written back.
C19_Witness ==
    /\ _theBus = TheBus
    /\ Succeeded("clearSpectralChannelInterrupt")
    /\ log[3].val = 85
    /\ log[4].val = 93

\* The read accessors of the status registers.
StatusAccessors ==
    { "getSystemInterruptStatus", "getSpectralChannelInterruptStatus",
      "getSpectralInterruptHighStatus", "getSpectralTriggerErrorStatus",
      "getSpectralValidStatus", "getFdValidStatus", "getFdSaturationStatus",
      "getFdFrequency", "getGpioInputStatus" }

\* C20 as stated: a status read accessor has no side effect: after the call
\* every device register, CFG0 included, and every stored sample is what it
\* was before, whatever bank was selected before.
C20_AccessorsChangeNothing ==
    [][ last'.op \in StatusAccessors =>
            /\ SameRegisters(regs, regs', {})
            /\ _data' = _data
      ]_vars

\* C20, amended: a status read accessor leaves every stored sample and every
\* device register other than CFG0 as it was; of CFG0 it changes at most bit 4
\* (reg_bank), and only by clearing it, which selects bank 0.
C20_AccessorsChangeOnlyTheBank ==
    [][ last'.op \in StatusAccessors =>
            LET old == Content(regs, kSfeAS7343RegCfg0)
                new == Content(regs', kSfeAS7343RegCfg0)
            IN  /\ SameRegisters(regs, regs', {kSfeAS7343RegCfg0})
                /\ _data' = _data
                /\ new \in {old, SetField(old, 4, 1, 0)}
      ]_vars

\* C20's case: getSpectralValidStatus read STATUS2 after it had found bank 1
\* selected and written CFG0 to select bank 0.
C20_Witness ==
    /\ _theBus = TheBus
    /\ last.op = "getSpectralValidStatus"
    /\ Len(log) = 3
    /\ GetField(log[1].val, 4, 1) = 1
    /\ log[2].ok /\ GetField(log[2].val, 4, 1) = 0
    /\ log[3].ok /\ log[3].reg = kSfeAS7343RegStatus2
    /\ DeviceBank(regs) = 0

\* The operation most recently run reported failure: false from a bool
\* operation, 0 from a numeric one.
ReturnedFailure ==
    IF last.op \in ValueOps THEN last.val = 0 ELSE last.ret = FALSE

\* C21: every operation stops at its first failed bus transaction: a failed
\* transaction is the last one the operation issued (nothing follows it, and
\* it is not issued again), and the operation returns failure, wherever in
\* the operation the failure occurs.
C21_StopsAtFirstFailure ==
    \A i \in DOMAIN log :
        ~log[i].ok => (i = Len(log) /\ ReturnedFailure)

\* C21's case: setLedDrive whose write of LED, its fourth transaction,
\* failed after the bank selection and the read of LED had succeeded.
C21_Witness ==
    /\ last.op = "setLedDrive"
    /\ Len(log) = 4
    /\ log[1].ok /\ log[2].ok /\ log[3].ok
    /\ log[4].kind = "write" /\ log[4].reg = kSfeAS7343RegLed /\ ~log[4].ok
    /\ last.ret = FALSE

\* The register each byte-returning read accessor reads.
ByteAccessorRegister ==
    [ getDeviceID      |-> kSfeAS7343RegID,
      getWaitTime      |-> kSfeAS7343RegWTime,
      readIntEnableReg |-> kSfeAS7343RegIntEnab ]

\* A transaction of the operation most recently run failed.
TransactionFailed == \E i \in DOMAIN log : ~log[i].ok

\* C22: when a bus transaction inside a read accessor fails (the read or the
\* write of the bank selection, or the read of the register), getDeviceID,
\* getWaitTime, readIntEnableReg and getFdFrequency return 0 and the bool
\* status accessors return false.  When all three succeed, getDeviceID,
\* getWaitTime and readIntEnableReg return the byte read from ID (0x5A),
\* WTIME (0x83) and INTENAB (0xF9): on an attached bus, the content of that
\* register.
C22_AccessorSentinels ==
    /\ ( /\ last.op \in DOMAIN ByteAccessorRegister \cup {"getFdFrequency"}
         /\ TransactionFailed ) => last.val = 0
    /\ ( /\ last.op \in StatusAccessors \ {"getFdFrequency"}
         /\ TransactionFailed ) => last.ret = FALSE
    /\ ( /\ last.op \in DOMAIN ByteAccessorRegister
         /\ log # <<>>
         /\ ~TransactionFailed ) =>
            /\ Len(log) = 3
            /\ log[3].kind = "read"
            /\ log[3].reg = ByteAccessorRegister[last.op]
            /\ last.val = log[3].val
            /\ _theBus = TheBus => last.val = Register(regs, ByteAccessorRegister[last.op])

\* C22's case: getDeviceID whose read of ID failed after the bank selection
\* had succeeded; the byte on the device was 0x55 and the call returned 0.
C22_Witness ==
    /\ _theBus = TheBus
    /\ last.op = "getDeviceID"
    /\ Len(log) = 3
    /\ log[1].ok /\ log[2].ok
    /\ log[3].reg = kSfeAS7343RegID /\ ~log[3].ok /\ log[3].val = 85
    /\ last.val = 0

\* C23: for every mode in {0, 2, 3} and every prior value of CFG20 (0xD6; each
\* of its other bits is 0 in one run and 1 in another), after a successful
\* setAutoSmux(mode) on an attached bus the bits 6..5 of CFG20 equal mode, and
\* bit 7 (fd_fifo_8b) and the reserved bits 4..0 are what they were before the
\* call.
C23_SetAutoSmuxKeepsOtherBits ==
    [][ (last'.op = "setAutoSmux" /\ last'.ret = TRUE /\ _theBus = TheBus) =>
            LET old == Register(regs, kSfeAS7343RegCfg20)
                new == Register(regs', kSfeAS7343RegCfg20)
            IN  /\ GetField(new, 5, 2) = last'.arg
                /\ GetField(new, 7, 1) = GetField(old, 7, 1)
                /\ GetField(new, 0, 5) = GetField(old, 0, 5)
      ]_vars

\* C23's case: setAutoSmux(2) succeeded on a CFG20 that held 0xAA (auto_smux
\* 01): it read 0xAA and wrote 0xCA, bit 7 still 1 and bits 4..0 still 01010.
C23_Witness ==
    /\ _theBus = TheBus
    /\ Succeeded("setAutoSmux")
    /\ last.arg = 2
    /\ log[3].val = 170
    /\ log[4].val = 202
    /\ Register(regs, kSfeAS7343RegCfg20) = 202

\* C24: after a successful setSpectralThresholdChannel(ch), ch in 0..5, on an
\* attached bus, the bits 2..0 of CFG12 (0x66, bank 1) equal ch and its bits
\* 7..3 are what they were before the call.
C24_ThresholdChannelInLowBits ==
    [][ ( /\ _theBus = TheBus
          /\ last'.op = "setSpectralThresholdChannel" /\ last'.ret = TRUE ) =>
            LET old == Register(regs, kSfeAS7343RegCfg12)
                new == Register(regs', kSfeAS7343RegCfg12)
            IN  /\ GetField(new, 0, 3) = last'.arg
                /\ GetField(new, 3, 5) = GetField(old, 3, 5)
      ]_vars

\* The register file r with the device's bank bit (CFG0 bit 4) set to `bank`.
WithBank(r, bank) ==
    [r EXCEPT ![kSfeAS7343RegCfg0] = SetField(@, 4, 1, bank)]

\* setWaitTime(v), run to success from the present registers with bank b1
\* selected, wrote v to WTIME and changed nothing else but the bank bit of
\* CFG0; getWaitTime, run to success after it with bank b2 selected, returns v.
WaitTimeRoundTrip(v, b1, b2) ==
    LET before == WithBank(regs, b1)
        set    == setWaitTime([regs |-> before, log |-> <<>>, data |-> _data], 0, v)
        get    == getWaitTime([regs |-> WithBank(set.w.regs, b2), log |-> <<>>,
                               data |-> _data], 0)
    IN  /\ set.ret = TRUE
        /\ Register(set.w.regs, kSfeAS7343RegWTime) = v
        /\ SameRegisters(before, set.w.regs, {kSfeAS7343RegCfg0, Home(kSfeAS7343RegWTime)})
        /\ Content(set.w.regs, kSfeAS7343RegCfg0)
             = SetField(Content(before, kSfeAS7343RegCfg0), 4, 1, 0)
        /\ get.ret = v

\* C26: on an attached bus, getWaitTime run to success after a successful
\* setWaitTime(v) returns v; a successful setWaitTime(v) leaves v in WTIME
\* (0x83) and changes no other register, except that it clears the bank bit
\* of CFG0.  This holds for every v in 0..255 and whichever bank is selected
\* before either call: the steps of a run show it for the values the run
\* passes, and where setWaitTime is the first call on the newly attached bus
\* the two operations are run from there for all 256 values and both banks.
C26_WaitTimeRoundTrip ==
    [][ _theBus = TheBus =>
          /\ ( /\ last.op = "setWaitTime" /\ last.ret = TRUE
               /\ last'.op = "getWaitTime" /\ Len(log') = 3 /\ log'[3].ok ) =>
                    last'.val = last.arg
          /\ (last'.op = "setWaitTime" /\ last'.ret = TRUE) =>
                /\ Register(regs', kSfeAS7343RegWTime) = last'.arg
                /\ SameRegisters(regs, regs', {kSfeAS7343RegCfg0, Home(kSfeAS7343RegWTime)})
                /\ Content(regs', kSfeAS7343RegCfg0)
                     = SetField(Content(regs, kSfeAS7343RegCfg0), 4, 1, 0)
          /\ ( /\ last.op \in {"begin", "setCommunicationBus"}
               /\ last'.op = "setWaitTime" /\ last'.ret = TRUE ) =>
                \A v \in Byte, b1, b2 \in {REG_BANK_0, REG_BANK_1} :
                    WaitTimeRoundTrip(v, b1, b2)
      ]_vars

\* C26's case: getWaitTime returned 255, which only setWaitTime(255) can have
\* put in WTIME, and it found bank 0 selected, as setWaitTime leaves it.
C26_Witness ==
    /\ _theBus = TheBus
    /\ last.op = "getWaitTime"
    /\ Len(log) = 3 /\ log[3].ok
    /\ GetField(log[1].val, 4, 1) = 0
    /\ last.val = 255
    /\ Register(regs, kSfeAS7343RegWTime) = 255

\* The operations that select bank 1 whatever their argument.
Bank1Ops ==
    { "getDeviceID", "powerOn", "powerOff", "spectralMeasurementEnable",
      "spectralMeasurementDisable", "setSpectralThresholdChannel" }

\* The bank the operation most recently run passes to setRegisterBank.
RequestedBank ==
    IF last.op = "setRegisterBank" THEN last.arg
    ELSE IF last.op = "readRegister" THEN (IF last.arg >= 128 THEN REG_BANK_0 ELSE REG_BANK_1)
    ELSE IF last.op \in Bank1Ops THEN REG_BANK_1
    ELSE REG_BANK_0

\* C27: the driver keeps no record of the selected bank.  The transactions of
\* every operation that reaches the bus start with one read of CFG0 and, when
\* that succeeds, one write of CFG0 that carries the requested bank in bit 4,
\* also when the byte read already showed that bank; whatever follows is the
\* operation's own register (CFG0 again only for readRegister(0xBF)).  So when
\* all transactions of an operation succeeded on an attached bus, the bank
\* selected on the device is the one the operation requested.
C27_BankSelectedEveryTime ==
    log # <<>> =>
        /\ log[1].kind = "read" /\ log[1].reg = kSfeAS7343RegCfg0
        /\ log[1].ok => Len(log) >= 2
        /\ Len(log) >= 2 =>
            /\ log[2].kind = "write" /\ log[2].reg = kSfeAS7343RegCfg0
            /\ log[2].val = SetField(log[1].val, 4, 1, RequestedBank)
        /\ \A i \in DOMAIN log :
            (i >= 3 /\ log[i].reg = kSfeAS7343RegCfg0) =>
                (last.op = "readRegister" /\ last.arg = kSfeAS7343RegCfg0 /\ log[i].kind = "read")
        /\ (_theBus = TheBus /\ ~TransactionFailed) => DeviceBank(regs) = RequestedBank

\* C27's case: getWaitTime found bank 0 already selected by an earlier
\* operation, read CFG0 and wrote it all the same, then read WTIME.
C27_Witness ==
    /\ _theBus = TheBus
    /\ last.op = "getWaitTime"
    /\ Len(log) = 3 /\ ~TransactionFailed
    /\ log[1].bank = REG_BANK_0 /\ GetField(log[1].val, 4, 1) = REG_BANK_0
    /\ log[2].kind = "write" /\ log[2].val = log[1].val
    /\ log[1].val = SetField(52, 4, 1, 0)
    /\ DeviceBank(regs) = REG_BANK_0

\* The register each threshold operation writes.
ThresholdRegister ==
    [ setSpectralIntThresholdLow  |-> kSfeAS7343RegSpThL,
      setSpectralIntThresholdHigh |-> kSfeAS7343RegSpThH ]

\* The 16-bit threshold the register pair at `reg` holds in register file r.
Threshold(r, reg) == Register(r, reg) + 256 * Register(r, reg + 1)

\* C28: a successful setSpectralIntThresholdHigh(v) (setSpectralIntThresholdLow(v))
\* selects bank 0 and then issues one write of two bytes at register 0x86
\* (0x84), v mod 256 followed by v div 256; on an attached bus the register
\* pair then holds v and the other threshold is what it was.  So when one is
\* set right after the other, in either order, both hold the values passed.
\* Checked for the thresholds 0, 0x0102 and 0xFFFF.
C28_ThresholdsWrittenLowByteFirst ==
    [][ (last'.op \in DOMAIN ThresholdRegister /\ last'.ret = TRUE) =>
            LET reg   == ThresholdRegister[last'.op]
                other == CHOOSE r \in ThresholdRegs : r # reg
            IN  /\ Len(log') = 3
                /\ log'[2].kind = "write" /\ log'[2].reg = kSfeAS7343RegCfg0
                /\ GetField(log'[2].val, 4, 1) = REG_BANK_0
                /\ log'[3].kind = "writeN" /\ log'[3].reg = reg
                /\ log'[3].buf = <<last'.arg % 256, last'.arg \div 256>>
                /\ _theBus = TheBus =>
                    /\ log'[3].bank = REG_BANK_0
                    /\ Threshold(regs', reg) = last'.arg
                    /\ Threshold(regs', other) = Threshold(regs, other)
                    /\ (last.op \in DOMAIN ThresholdRegister \ {last'.op} /\ last.ret = TRUE) =>
                            Threshold(regs', other) = last.arg
      ]_vars

\* C28's case: setSpectralIntThresholdHigh(0x0102) succeeded right after
\* setSpectralIntThresholdLow(0xFFFF): 0x84..0x87 hold FF FF 02 01.
C28_Witness ==
    /\ _theBus = TheBus
    /\ Succeeded("setSpectralIntThresholdHigh")
    /\ last.arg = 258
    /\ log[3].buf = <<2, 1>>
    /\ Register(regs, kSfeAS7343RegSpThH) = 2
    /\ Register(regs, kSfeAS7343RegSpThH + 1) = 1
    /\ Threshold(regs, kSfeAS7343RegSpThL) = 65535

\* setSpectralIntPersistence(apers), run from the present state with no
\* transaction failing, returns true and leaves apers mod 16 in bits 3..0 of
\* PERS and bits 7..4 as they were.
PersistenceTruncated(apers) ==
    LET r == setSpectralIntPersistence(World, 0, apers)
    IN  /\ r.ret = TRUE
        /\ Len(r.w.log) = 4
        /\ GetField(Register(r.w.regs, kSfeAS7343RegPers), 0, 4) = apers % 16
        /\ GetField(Register(r.w.regs, kSfeAS7343RegPers), 4, 4)
             = GetField(Register(regs, kSfeAS7343RegPers), 4, 4)

\* C30: setSpectralIntPersistence checks no range.  Whatever apers in 0..255
\* it is given, with a bus set it goes to the bus, and it returns true when
\* none of its four transactions fails; on an attached bus the bits 3..0 of
\* PERS (0xCF) are then apers mod 16 and the bits 7..4 are what they were
\* before the call, also for apers in 16..255.  The steps of a run show it for
\* the values the run passes, and where it is the first call on the newly
\* attached bus the operation is run from there for all 256 values.
C30_PersistenceTruncated ==
    [][ last'.op = "setSpectralIntPersistence" =>
            /\ _theBus # NullBus =>
                /\ log' # <<>>
                /\ last'.ret = (Len(log') = 4 /\ log'[4].ok)
            /\ (_theBus = TheBus /\ last'.ret = TRUE) =>
                /\ GetField(Register(regs', kSfeAS7343RegPers), 0, 4) = last'.arg % 16
                /\ GetField(Register(regs', kSfeAS7343RegPers), 4, 4)
                     = GetField(Register(regs, kSfeAS7343RegPers), 4, 4)
            /\ (_theBus = TheBus /\ last.op \in {"begin", "setCommunicationBus"}) =>
                \A apers \in Byte : PersistenceTruncated(apers)
      ]_vars

\* C30's case: setSpectralIntPersistence(255) succeeded on a PERS that held
\* 0x55: it wrote 0x5F, the low nibble of 255 under the old high nibble.
C30_Witness ==
    /\ _theBus = TheBus
    /\ Succeeded("setSpectralIntPersistence")
    /\ last.arg = 255
    /\ log[3].val = 85
    /\ log[4].val = 95
    /\ Register(regs, kSfeAS7343RegPers) = 95

\* The operation most recently run pinged the device and got an answer.
PingAnswered == \E i \in DOMAIN log : log[i].kind = "ping" /\ log[i].ok

\* C25: SfeAS7343ArdI2C::isConnected returns true only when the device
\* answers the ping and its ID register holds the expected ID (0x81), and so
\* does SfeAS7343ArdI2C::begin: for a device that answers with another ID
\* both return false.
C25_ConnectedOnlyWithExpectedID ==
    ( /\ last.op \in {"SfeAS7343ArdI2C::isConnected", "SfeAS7343ArdI2C::begin"}
      /\ last.ret = TRUE ) =>
        /\ PingAnswered
        /\ Register(regs, kSfeAS7343RegID) = kDefaultAS7343DeviceID

\* SP_EN, bit 1 of ENABLE (0x80), in the register file r.
SpEn(r) == GetField(Register(r, kSfeAS7343RegEnable), 1, 1)

\* C29: in the gain example every setAgain is called while spectral
\* measurement is disabled, SP_EN = 0 on the device.  setup() calls it before
\* the first spectralMeasurementEnable, which follows it; updateGainSetting()
\* calls it only right after spectralMeasurementDisable returned true, and
\* calls spectralMeasurementEnable only after it.  This for every sequence of
\* '+' and '-' and every pattern of failing bus transactions.
C29_SetAgainWhileDisabled ==
    [][ last'.op = "setAgain" =>
            /\ SpEn(regs) = 0
            /\ pc = "setAgain" =>
                /\ last.op = "setAutoSmux"
                /\ pc' \in {"spectralMeasurementEnable", "halt"}
            /\ pc = "updateGainSetting: setAgain" =>
                /\ last.op = "spectralMeasurementDisable" /\ last.ret = TRUE
                /\ pc' \in {"updateGainSetting: spectralMeasurementEnable", "readAllSpectralData"}
      ]_vars

====
